---------------------------- MODULE Spec2Model ----------------------------
(***************************************************************************)
(* A model of the TempleCode control-flow engine of Time Warp II:          *)
(*   core/interpreter.py          TempleCodeInterpreter (fetch-execute     *)
(*                                loop, input synchronisation)             *)
(*   core/languages/templecode.py TempleCodeExecutor (statement handlers)  *)
(*   TimeWarpII.py                the IDE thread (stop_code, _submit_input)*)
(*                                                                         *)
(* A program is a sequence of statements (records with an "op" field).     *)
(* Line indices are 0-based as in the source: Line(i) is program line i.   *)
(* The nested Python loops that execute statements (run_program, the body  *)
(* loop of _execute_sub_or_function, of _modern_foreach and of             *)
(* _logo_repeat) are kept as an explicit stack of frames: one step of the  *)
(* model is one iteration of the innermost loop.                           *)
(***************************************************************************)
EXTENDS Integers, Sequences, FiniteSets, TLC

VARIABLES
    _history,           \* UndoHistoryManager._history (the entries' content)
    _index,             \* UndoHistoryManager._index
    history_result,     \* the last call on the UndoHistoryManager and what it returned
    program_text,       \* the program text handed to run_program, by lines
    program_lines,      \* interpreter.program_lines
    gui,                \* output_widget and ide_turtle_canvas are set (IDE run)
    debug_mode,         \* interpreter.debug_mode
    current_line,       \* interpreter.current_line
    running,            \* interpreter.running
    iterations,         \* run_program's local counter
    error_history,      \* interpreter.error_history (messages)
    variables,          \* interpreter.variables
    lists,              \* interpreter.lists
    for_stack,          \* interpreter.for_stack
    while_stack,        \* interpreter.while_stack
    do_stack,           \* interpreter.do_stack
    try_stack,          \* interpreter.try_stack
    call_stack,         \* interpreter.call_stack
    stack,              \* interpreter.stack (GOSUB return lines)
    select_stack,       \* interpreter.select_stack
    sub_definitions,    \* interpreter.sub_definitions
    function_definitions, \* interpreter.function_definitions
    return_value,       \* interpreter.return_value
    _data_values,       \* interpreter._data_values
    _data_pos,          \* interpreter._data_pos
    constants,          \* interpreter.constants
    system_vars,        \* executor.system_vars
    match_flag,         \* interpreter.match_flag
    return_stack,       \* executor.return_stack (PILOT C: return lines)
    turtle_graphics,    \* interpreter.turtle_graphics (empty until initialised)
    logo_procedures,    \* interpreter.logo_procedures
    input_buffer,       \* interpreter.input_buffer (shared with the IDE)
    frames,             \* the active nested executor loops (Python call stack)
    pc,                 \* position of the worker thread
    executed,           \* history: program lines handed to execute_command
    _input_event,       \* interpreter._input_event: "none", "clear" or "set"
    _input_result,      \* interpreter._input_result
    _waiting_for_input, \* interpreter._waiting_for_input
    _is_running,        \* IDE: TempleCodeApp._is_running
    host_pc,            \* position of the IDE thread inside stop_code
    runs,               \* history: how often the IDE has started the program
    cancelled           \* history: "pending" once stop_code has begun while the
                        \* worker was blocked in the input wait, "yes" once
                        \* that stop_code has ended the wait, else "no"

vars == << _history, _index, history_result, program_text, program_lines, gui, debug_mode, current_line, running, iterations,
           error_history, variables, lists, for_stack, while_stack, do_stack,
           try_stack, call_stack, stack, select_stack, sub_definitions,
           function_definitions, return_value, _data_values, _data_pos,
           constants, system_vars, match_flag, return_stack,
           turtle_graphics, logo_procedures,
           input_buffer, frames, pc, executed, _input_event, _input_result, _waiting_for_input,
           _is_running, host_pc, runs, cancelled >>

-----------------------------------------------------------------------------
(* Bounds of the model and constants of the program *)

max_iterations == 100000

\* UndoHistoryManager.MAX_HISTORY
MAX_HISTORY == 50
MaxForBound == 3
MaxBuffer == 1
MaxLoop == 2
MaxDepth == 5
MaxRuns == 2

-----------------------------------------------------------------------------
(* Values and expressions *)

NoneV == [k |-> "none", v |-> 0]
Num(n) == [k |-> "num", v |-> n]
Str(t) == [k |-> "str", v |-> t]
Var(x) == [k |-> "var", v |-> x]
Div(l, r) == [k |-> "div", l |-> l, r |-> r]
Cond(l, rel, r) == [l |-> l, rel |-> rel, r |-> r]

Get(f, n, d) == IF n \in DOMAIN f THEN f[n] ELSE d
Put(f, n, val) == [x \in DOMAIN f \cup {n} |-> IF x = n THEN val ELSE f[x]]
Del(f, n) == [x \in DOMAIN f \ {n} |-> f[x]]
Top(st) == st[Len(st)]
Pop(st) == SubSeq(st, 1, Len(st) - 1)

-----------------------------------------------------------------------------
(* Statements *)

S_BLANK == [op |-> "BLANK"]
S_PRINT(t) == [op |-> "PRINT", text |-> t]
S_LET(x, e) == [op |-> "LET", var |-> x, expr |-> e]
S_INCR(x) == [op |-> "INCR", var |-> x]
S_LABEL(n) == [op |-> "LABEL", name |-> n]
S_GOTO(n) == [op |-> "GOTO", target |-> n]
S_FOR(x, a, b, st) == [op |-> "FOR", var |-> x, start |-> a, end |-> b, step |-> st]
S_NEXT(x) == [op |-> "NEXT", var |-> x]
S_WHILE(c) == [op |-> "WHILE", cond |-> c]
S_WEND == [op |-> "WEND"]
S_DO(cl, c) == [op |-> "DO", clause |-> cl, cond |-> c]
S_LOOP(cl, c) == [op |-> "LOOP", clause |-> cl, cond |-> c]
S_BREAK == [op |-> "BREAK"]
S_IFTHEN(c, st) == [op |-> "IF", cond |-> c, then |-> st]
S_END == [op |-> "END"]
S_TRY == [op |-> "TRY"]
S_CATCH(x) == [op |-> "CATCH", var |-> x]
S_END_TRY == [op |-> "END TRY"]
S_THROW(t) == [op |-> "THROW", expr |-> Str(t)]
S_ASSERT(c, m) == [op |-> "ASSERT", cond |-> c, msg |-> m]
S_SUB(n, ps) == [op |-> "SUB", name |-> n, params |-> ps]
S_END_SUB == [op |-> "END SUB"]
S_CALL(n, as) == [op |-> "CALL", name |-> n, args |-> as]
S_RETURN == [op |-> "RETURN"]
S_LIST(n, vs) == [op |-> "LIST", name |-> n, values |-> vs]
S_FOREACH(x, c) == [op |-> "FOREACH", var |-> x, coll |-> c]
S_REPEAT(n, cs) == [op |-> "REPEAT", count |-> n, cmds |-> cs]
S_INPUT(x) == [op |-> "INPUT", var |-> x]

True == Cond(Num(1), "=", Num(1))
False == Cond(Num(1), "=", Num(2))

NumLines == Len(program_lines)
Line(i) == program_lines[i + 1]

-----------------------------------------------------------------------------
(* The interpreter state as a record, for the statement handlers.  A       *)
(* handler maps a state and a statement to a state and a result string;    *)
(* "raise" stands for a Python exception leaving the handler, "enter" for  *)
(* a handler that has started a nested body loop and not yet returned.     *)

St == [current_line |-> current_line, running |-> running,
       iterations |-> iterations, error_history |-> error_history,
       variables |-> variables, lists |-> lists, for_stack |-> for_stack,
       while_stack |-> while_stack, do_stack |-> do_stack,
       try_stack |-> try_stack, call_stack |-> call_stack,
       stack |-> stack, select_stack |-> select_stack,
       sub_definitions |-> sub_definitions,
       function_definitions |-> function_definitions,
       return_value |-> return_value,
       _data_values |-> _data_values,
       _data_pos |-> _data_pos,
       constants |-> constants,
       system_vars |-> system_vars,
       match_flag |-> match_flag,
       return_stack |-> return_stack,
       turtle_graphics |-> turtle_graphics,
       logo_procedures |-> logo_procedures,
       input_buffer |-> input_buffer,
       frames |-> frames, pc |-> pc]

Ret(s, r) == [s |-> s, result |-> r, err |-> ""]
Raise(s, e) == [s |-> s, result |-> "raise", err |-> e]

IsNum(val) == val.k = "num"

\* load_program: the label table; a later definition overwrites an earlier one
labels ==
    LET defs(n) == {i \in 0 .. NumLines - 1 :
                       Line(i).op = "LABEL" /\ Line(i).name = n}
        names == {Line(i).name : i \in {j \in 0 .. NumLines - 1 : Line(j).op = "LABEL"}}
    IN [n \in names |-> CHOOSE i \in defs(n) : \A j \in defs(n) : j <= i]

\* interpreter.log_error: append to the error history
log_error(s, msg) == [s EXCEPT !.error_history = Append(@, msg)]

\* evaluate_expression on literals, variables, one division of numbers (the
\* quotients of the model's programs are exact) and sums, differences and
\* products of numbers: the value returned.  A division by zero returns a
\* text in place of a value; text that is no expression ("bad") returns 0.
RECURSIVE evaluate_expression(_, _)
evaluate_expression(s, e) ==
    CASE e.k = "var" -> Get(s.variables, e.v, Num(0))
      [] e.k = "div" ->
            LET l == evaluate_expression(s, e.l)
                r == evaluate_expression(s, e.r)
            IN IF r.v = 0 THEN Str("ERROR: Division by zero")
               ELSE Num(l.v \div r.v)
      [] e.k = "bin" ->
            LET l == evaluate_expression(s, e.l).v
                r == evaluate_expression(s, e.r).v
            IN Num(CASE e.op = "+" -> l + r
                     [] e.op = "-" -> l - r
                     [] e.op = "*" -> l * r)
      [] e.k = "bad" -> Num(0)
      [] OTHER -> e

\* evaluate_expression: what it logs while it computes that value
ExpressionLog(s, e) ==
    IF e.k = "div" /\ evaluate_expression(s, e.r).v = 0
    THEN log_error(s, "Division by zero in expression")
    ELSE IF e.k = "bad" THEN log_error(s, "Syntax error in expression")
    ELSE s

Compare(rel, a, b) ==
    CASE rel = "="  -> a = b
      [] rel = "<>" -> a # b
      [] rel = "<"  -> a < b
      [] rel = ">"  -> a > b
      [] rel = "<=" -> a <= b
      [] rel = ">=" -> a >= b

\* _eval_basic_condition: numeric comparison when both sides are numbers,
\* else comparison of the two sides as strings (equality only in this model)
_eval_basic_condition(s, c) ==
    LET l == evaluate_expression(s, c.l)
        r == evaluate_expression(s, c.r)
    IN IF IsNum(l) /\ IsNum(r) THEN Compare(c.rel, l.v, r.v)
       ELSE LET same == l.k = r.k /\ l.v = r.v
            IN IF c.rel = "=" THEN same ELSE c.rel = "<>" /\ ~same

\* _eval_basic_expression and execute_command call each other through the
\* body of a FUNCTION; both are defined below
RECURSIVE _eval_basic_expression(_, _)
RECURSIVE execute_command(_, _)

\* _basic_let: a constant is not assigned
_basic_let(s, cmd) ==
    IF cmd.var \in s.constants THEN Ret(s, "continue")
    ELSE LET assign(r) ==
                 IF r.err # "" THEN Raise(r.s, r.err)
                 ELSE Ret([r.s EXCEPT !.variables = Put(@, cmd.var, r.v)],
                          "continue")
         IN assign(_eval_basic_expression(s, cmd.expr))

\* _basic_incr_decr with direction 1 and the default amount
_basic_incr_decr(s, cmd) ==
    LET cur == Get(s.variables, cmd.var, Num(0))
    IN IF ~IsNum(cur) THEN Raise(s, "could not convert string to float")
       ELSE Ret([s EXCEPT !.variables = Put(@, cmd.var, Num(cur.v + 1))], "continue")

\* _basic_goto: the target resolves as a label; an unknown target is only
\* printed and execution continues
_basic_goto(s, cmd) ==
    IF cmd.target \in DOMAIN labels
    THEN Ret([s EXCEPT !.current_line = labels[cmd.target]], "jump")
    ELSE Ret(s, "continue")

\* _basic_gosub: the return line is pushed before the target is resolved; an
\* unknown target is only printed and execution continues
_basic_gosub(s, cmd) ==
    LET s1 == [s EXCEPT !.stack = Append(@, s.current_line)]
    IN IF cmd.target \in DOMAIN labels
       THEN Ret([s1 EXCEPT !.current_line = labels[cmd.target]], "jump")
       ELSE Ret(s1, "continue")

\* _basic_return: resume at the line pushed last (the loop then adds one);
\* with nothing pushed the statement is only printed
_basic_return(s) ==
    IF s.stack # << >>
    THEN Ret([s EXCEPT !.current_line = Top(s.stack), !.stack = Pop(@)],
             "continue")
    ELSE Ret(s, "continue")

\* _basic_for
_basic_for(s, cmd) ==
    LET start == evaluate_expression(s, cmd.start)
        end == evaluate_expression(s, cmd.end)
        step == evaluate_expression(s, cmd.step)
    IN IF ~IsNum(start) \/ ~IsNum(end) \/ ~IsNum(step)
       THEN Raise(s, "could not convert string to float")
       ELSE IF step.v = 0 THEN Ret(s, "continue")
       ELSE Ret([s EXCEPT !.variables = Put(@, cmd.var, Num(start.v)),
                          !.for_stack = Append(@, [var |-> cmd.var, end |-> end.v,
                                                   step |-> step.v,
                                                   line |-> s.current_line])],
                "continue")

\* _basic_next with the test of the variable NEXT names left out
_basic_next_any(s, cmd) ==
    IF s.for_stack = << >> THEN Ret(s, "continue")
    ELSE LET loop == Top(s.for_stack)
             cur == Get(s.variables, loop.var, Num(0))
         IN IF ~IsNum(cur) THEN Raise(s, "could not convert string to float")
            ELSE LET current_val == cur.v + loop.step
                     s1 == [s EXCEPT !.variables = Put(@, loop.var, Num(current_val))]
                 IN IF \/ loop.step > 0 /\ current_val > loop.end
                       \/ loop.step < 0 /\ current_val < loop.end
                    THEN Ret([s1 EXCEPT !.for_stack = Pop(@)], "continue")
                    ELSE Ret([s1 EXCEPT !.current_line = loop.line + 1], "jump")

\* _basic_next
_basic_next(s, cmd) ==
    IF s.for_stack = << >> THEN Ret(s, "continue")
    ELSE LET loop == Top(s.for_stack)
             cur == Get(s.variables, loop.var, Num(0))
         IN IF cmd.var # "" /\ cmd.var # loop.var THEN Ret(s, "continue")
            ELSE IF ~IsNum(cur) THEN Raise(s, "could not convert string to float")
            ELSE LET current_val == cur.v + loop.step
                     s1 == [s EXCEPT !.variables = Put(@, loop.var, Num(current_val))]
                 IN IF \/ loop.step > 0 /\ current_val > loop.end
                       \/ loop.step < 0 /\ current_val < loop.end
                    THEN Ret([s1 EXCEPT !.for_stack = Pop(@)], "continue")
                    ELSE Ret([s1 EXCEPT !.current_line = loop.line + 1], "jump")

-----------------------------------------------------------------------------
(* Forward scans for the closer of a block.  The source walks the lines    *)
(* from i on, adding one to depth at an opener and taking one off at a     *)
(* closer, and stops at the closer that brings depth to 0; a scan that     *)
(* finds none ends at len(program_lines).                                  *)

RECURSIVE ScanBlock(_, _, _, _)
ScanBlock(i, depth, opens, closes) ==
    IF i >= NumLines THEN NumLines
    ELSE IF Line(i).op \in opens THEN ScanBlock(i + 1, depth + 1, opens, closes)
    ELSE IF Line(i).op \in closes
         THEN IF depth = 1 THEN i ELSE ScanBlock(i + 1, depth - 1, opens, closes)
    ELSE ScanBlock(i + 1, depth, opens, closes)

\* _basic_while
_basic_while(s, cmd) ==
    IF _eval_basic_condition(s, cmd.cond)
    THEN Ret([s EXCEPT !.while_stack =
                  Append(@, [line |-> s.current_line, condition |-> cmd.cond])],
             "continue")
    ELSE Ret([s EXCEPT !.current_line =
                  ScanBlock(s.current_line + 1, 1, {"WHILE"}, {"WEND"})],
             "continue")

\* _basic_wend
_basic_wend(s) ==
    IF s.while_stack = << >> THEN Ret(s, "continue")
    ELSE LET loop == Top(s.while_stack)
         IN IF _eval_basic_condition(s, loop.condition)
            THEN Ret([s EXCEPT !.current_line = loop.line], "jump")
            ELSE Ret([s EXCEPT !.while_stack = Pop(@)], "continue")

\* _basic_do: the frame is pushed first; a pre-condition that forbids the
\* first iteration pops it again and skips to the matching LOOP
_basic_do(s, cmd) ==
    LET skip == \/ cmd.clause = "WHILE" /\ ~_eval_basic_condition(s, cmd.cond)
                \/ cmd.clause = "UNTIL" /\ _eval_basic_condition(s, cmd.cond)
    IN IF skip
       THEN Ret([s EXCEPT !.current_line =
                     ScanBlock(s.current_line + 1, 1, {"DO"}, {"LOOP"})],
                "continue")
       ELSE Ret([s EXCEPT !.do_stack =
                     Append(@, [line |-> s.current_line, clause |-> cmd.clause,
                                condition |-> cmd.cond])],
                "continue")

\* _basic_loop: only the clause written on LOOP itself is tested
_basic_loop(s, cmd) ==
    IF s.do_stack = << >> THEN Ret(s, "continue")
    ELSE LET loop == Top(s.do_stack)
             should_continue ==
                 CASE cmd.clause = "WHILE" -> _eval_basic_condition(s, cmd.cond)
                   [] cmd.clause = "UNTIL" -> ~_eval_basic_condition(s, cmd.cond)
                   [] OTHER -> TRUE
         IN IF should_continue
            THEN Ret([s EXCEPT !.current_line = loop.line], "jump")
            ELSE Ret([s EXCEPT !.do_stack = Pop(@)], "continue")

-----------------------------------------------------------------------------
(* Block IF and SELECT CASE.  A block IF is a statement with op "IF THEN"   *)
(* (nothing follows THEN); the statements ELSEIF, ELSE, END IF, SELECT,     *)
(* CASE, CASE ELSE and END SELECT carry their keyword as op.  The scans     *)
(* count every line that starts with IF and holds THEN as an opener, the    *)
(* single-line IF ... THEN statement included.                              *)

\* _basic_if, multi-line block: a true condition falls into the body; a false
\* one leaves current_line on the ELSE, the satisfied ELSEIF or the END IF
\* that the scan stops at, or on len(program_lines)
_basic_if(s, cmd) ==
    LET RECURSIVE scan(_, _)
        scan(i, depth) ==
            IF i >= NumLines THEN NumLines
            ELSE IF Line(i).op \in {"IF", "IF THEN"} THEN scan(i + 1, depth + 1)
            ELSE IF Line(i).op = "ELSE" /\ depth = 1 THEN i
            ELSE IF Line(i).op = "ELSEIF" /\ depth = 1
                 THEN IF _eval_basic_condition(s, Line(i).cond) THEN i
                      ELSE scan(i + 1, depth)
            ELSE IF Line(i).op = "END IF"
                 THEN IF depth = 1 THEN i ELSE scan(i + 1, depth - 1)
            ELSE scan(i + 1, depth)
    IN IF _eval_basic_condition(s, cmd.cond) THEN Ret(s, "continue")
       ELSE Ret([s EXCEPT !.current_line = scan(s.current_line + 1, 1)],
                "continue")

\* _basic_else and _basic_elseif, reached when the branch above them has
\* run: skip to the END IF
_basic_else(s) ==
    Ret([s EXCEPT !.current_line =
             ScanBlock(s.current_line + 1, 1, {"IF", "IF THEN"}, {"END IF"})],
        "continue")

\* _basic_select pushing a frame that counts as matched already
_basic_select_matched(s, cmd) ==
    Ret([s EXCEPT !.select_stack =
             Append(@, [value |-> evaluate_expression(s, cmd.expr),
                        matched |-> TRUE])],
        "continue")

\* _basic_select
_basic_select(s, cmd) ==
    Ret([s EXCEPT !.select_stack =
             Append(@, [value |-> evaluate_expression(s, cmd.expr),
                        matched |-> FALSE])],
        "continue")

\* _basic_case with _skip_to_end_select and _skip_to_next_case
_basic_case(s, cmd) ==
    LET sel == Top(s.select_stack)
        match == [s EXCEPT !.select_stack =
                      [@ EXCEPT ![Len(@)] = [sel EXCEPT !.matched = TRUE]]]
        end_select == ScanBlock(s.current_line + 1, 1, {"SELECT"}, {"END SELECT"})
        RECURSIVE next_case(_)
        next_case(i) ==
            IF i >= NumLines THEN NumLines
            ELSE IF Line(i).op \in {"CASE", "CASE ELSE", "END SELECT"} THEN i - 1
            ELSE next_case(i + 1)
    IN IF s.select_stack = << >> THEN Ret(s, "continue")
       ELSE IF cmd.op = "CASE ELSE"
       THEN IF ~sel.matched THEN Ret(match, "continue")
            ELSE Ret([s EXCEPT !.current_line = end_select,
                               !.select_stack = IF end_select < NumLines
                                                THEN Pop(@) ELSE @],
                     "continue")
       ELSE IF evaluate_expression(s, cmd.expr) = sel.value /\ ~sel.matched
       THEN Ret(match, "continue")
       ELSE Ret([s EXCEPT !.current_line = next_case(s.current_line + 1)],
                "continue")

-----------------------------------------------------------------------------
(* TRY / CATCH / THROW / ASSERT.  None is written -1 (a CATCH or END TRY   *)
(* line found by the scan is at index 1 or more, so "is not None" and      *)
(* Python truthiness agree on it).                                         *)

None == 0 - 1

RECURSIVE TryScan(_, _, _)
TryScan(scan, depth, catch) ==
    IF scan >= NumLines THEN [catch_line |-> catch, end_line |-> None]
    ELSE IF Line(scan).op = "TRY" THEN TryScan(scan + 1, depth + 1, catch)
    ELSE IF Line(scan).op = "CATCH" /\ depth = 1 THEN TryScan(scan + 1, depth, scan)
    ELSE IF Line(scan).op = "END TRY"
         THEN IF depth = 1 THEN [catch_line |-> catch, end_line |-> scan]
              ELSE TryScan(scan + 1, depth - 1, catch)
    ELSE TryScan(scan + 1, depth, catch)

\* _modern_try
_modern_try(s) ==
    LET found == TryScan(s.current_line + 1, 1, None)
    IN Ret([s EXCEPT !.try_stack =
                Append(@, [try_line |-> s.current_line,
                           catch_line |-> found.catch_line,
                           end_line |-> found.end_line])],
           "continue")

\* _modern_catch: reached by normal flow, skip to END TRY
_modern_catch(s) ==
    IF s.try_stack # << >> /\ Top(s.try_stack).end_line # None
    THEN Ret([s EXCEPT !.current_line = Top(s.try_stack).end_line,
                       !.try_stack = Pop(@)],
             "jump")
    ELSE Ret(s, "continue")

\* the binding both _modern_throw and execute_line make before the jump
BindCaught(s, catch_line, msg) ==
    LET cv == Line(catch_line).var
        v1 == IF cv # "" THEN Put(s.variables, cv, Str(msg)) ELSE s.variables
    IN [s EXCEPT !.variables = Put(v1, "ERROR$", Str(msg)),
                 !.current_line = catch_line + 1]

\* _modern_throw with the message already evaluated
ThrowMessage(s, msg) ==
    IF s.try_stack # << >> /\ Top(s.try_stack).catch_line # None
    THEN Ret(BindCaught(s, Top(s.try_stack).catch_line, msg), "jump")
    ELSE IF s.try_stack # << >>
    THEN Ret([s EXCEPT !.try_stack = Pop(@)], "error")
    ELSE Ret(s, "error")

\* _modern_throw
_modern_throw(s, cmd) == ThrowMessage(s, evaluate_expression(s, cmd.expr).v)

\* _modern_assert
_modern_assert(s, cmd) ==
    IF _eval_basic_condition(s, cmd.cond) THEN Ret(s, "continue")
    ELSE IF s.try_stack # << >> THEN ThrowMessage(s, cmd.msg)
    ELSE Ret(s, "error")

\* END and its block-closing variants in _dispatch_basic
EndTry(s) ==
    Ret(IF s.try_stack # << >> THEN [s EXCEPT !.try_stack = Pop(@)] ELSE s,
        "continue")

EndProgram(s) == Ret([s EXCEPT !.running = FALSE], "end")

-----------------------------------------------------------------------------
(* SUB / CALL / RETURN *)

\* _modern_sub_define: record the body and leave current_line on END SUB
_modern_sub_define(s, cmd) ==
    LET body_start == s.current_line + 1
        body_end == ScanBlock(body_start, 1, {"SUB", "FUNCTION"},
                              {"END SUB", "END FUNCTION"})
    IN Ret([s EXCEPT !.current_line = body_end,
                     !.sub_definitions =
                         Put(@, cmd.name, [params |-> cmd.params,
                                           body_start |-> body_start,
                                           body_end |-> body_end])],
           "continue")

\* the parameter loop of _execute_sub_or_function: save, then bind, in order
RECURSIVE BindParams(_, _, _, _, _)
BindParams(s, saved, params, args, i) ==
    IF i > Len(params) THEN [s |-> s, saved_vars |-> saved, err |-> ""]
    ELSE LET p == params[i]
             sv == Put(saved, p, Get(s.variables, p, NoneV))
             bind(r) ==
                 IF r.err # "" THEN [s |-> r.s, saved_vars |-> sv, err |-> r.err]
                 ELSE BindParams([r.s EXCEPT !.variables = Put(@, p, r.v)],
                                 sv, params, args, i + 1)
         IN IF i > Len(args) THEN BindParams(s, sv, params, args, i + 1)
            ELSE bind(_eval_basic_expression(s, args[i]))

\* _execute_sub_or_function up to the start of its body loop.  The body loop's
\* frame also remembers the variables as the call found them (a history
\* field: the code keeps saved_vars only).
_execute_sub_or_function(s, defn, args) ==
    LET enter(b) ==
            IF b.err # "" THEN Raise(b.s, b.err)
            ELSE Ret([b.s EXCEPT
                         !.call_stack = Append(@, [return_line |-> s.current_line,
                                                   saved_vars |-> b.saved_vars,
                                                   params |-> defn.params]),
                         !.return_value = NoneV,
                         !.current_line = defn.body_start,
                         !.frames = Append(@, [kind |-> "sub",
                                               body_end |-> defn.body_end,
                                               before |-> s.variables])],
                     "enter")
    IN enter(BindParams(s, << >>, defn.params, args, 1))

\* _modern_call
_modern_call(s, cmd) ==
    IF cmd.name \in DOMAIN s.sub_definitions
    THEN _execute_sub_or_function(s, s.sub_definitions[cmd.name], cmd.args)
    ELSE IF cmd.name \in DOMAIN s.function_definitions
    THEN _execute_sub_or_function(s, s.function_definitions[cmd.name], cmd.args)
    ELSE Ret(s, "continue")

\* the restore loop of _execute_sub_or_function
RECURSIVE RestoreParams(_, _, _, _)
RestoreParams(vs, saved, params, i) ==
    IF i > Len(params) THEN vs
    ELSE LET p == params[i]
             v1 == IF saved[p] # NoneV THEN Put(vs, p, saved[p])
                   ELSE IF p \in DOMAIN vs THEN Del(vs, p) ELSE vs
         IN RestoreParams(v1, saved, params, i + 1)

\* _execute_sub_or_function after its body loop: pop the call frame, restore
\* the caller's variables and position (the handler then returns "continue")
SubExit(s) ==
    LET frame == Top(s.call_stack)
    IN [s EXCEPT !.call_stack = Pop(@),
                 !.variables = RestoreParams(@, frame.saved_vars, frame.params, 1),
                 !.current_line = frame.return_line,
                 !.frames = Pop(@)]

\* The body loop of _execute_sub_or_function when the call stands in an
\* expression, run to its end within the statement that holds the
\* expression.  (The bodies of the functions called this way start no nested
\* body loop in the programs of this model.)
RECURSIVE FunctionBody(_, _)
FunctionBody(s, body_end) ==
    IF ~(s.current_line < body_end) THEN Ret(s, "continue")
    ELSE IF Line(s.current_line).op = "BLANK"
    THEN FunctionBody([s EXCEPT !.current_line = @ + 1], body_end)
    ELSE LET step(r) ==
                 IF r.result \in {"return", "end", "raise"} THEN r
                 ELSE FunctionBody([r.s EXCEPT !.current_line =
                                       IF r.result = "jump" THEN @ ELSE @ + 1],
                                   body_end)
         IN step(execute_command(s, Line(s.current_line)))

\* The calls of user-defined FUNCTIONs in the text x, replaced left to right
\* by the text of their values: the state left, the text, and for a text
\* that is one call the value itself.
RECURSIVE SubstituteCalls(_, _)
SubstituteCalls(st, x) ==
    LET returned(y) ==
            [s |-> y,
             v |-> IF y.return_value # NoneV THEN y.return_value ELSE Num(0),
             err |-> ""]
        left(b) ==
            IF b.result = "raise" THEN [s |-> b.s, v |-> Num(0), err |-> b.err]
            ELSE returned(SubExit(b.s))
        body(h, body_end) ==
            IF h.result = "raise" THEN h ELSE FunctionBody(h.s, body_end)
        call(name, arg) ==
            left(body(_execute_sub_or_function(st, st.function_definitions[name],
                                               << arg >>),
                      st.function_definitions[name].body_end))
        text(r) ==
            [s |-> r.s, err |-> r.err, v |-> r.v,
             e |-> IF r.v.k = "str" THEN Var(r.v.v) ELSE r.v]
        join(a, b) ==
            IF a.err # "" THEN a
            ELSE [s |-> b.s, err |-> b.err, e |-> [x EXCEPT !.l = a.e, !.r = b.e]]
        right(a) == join(a, SubstituteCalls(a.s, x.r))
    IN CASE x.k = "call" /\ x.name \in DOMAIN st.function_definitions ->
              text(call(x.name, x.arg))
         [] x.k = "bin" -> right(SubstituteCalls(st, x.l))
         [] OTHER -> [s |-> st, err |-> "", e |-> x]

\* _eval_basic_expression: the state left and the value returned.
\*  - The text of a call of a user-defined FUNCTION, name(args): the body is
\*    run and return_value is the value, 0 if there is none.
\*  - Any other text that begins with the name of a FUNCTION and "(" and
\*    ends with ")" is taken for a call too (the pattern ^(\w+)\((.*)\)$):
\*    everything between its first "(" and its last ")" is the argument.
\*    (That text holds no complete call in the programs of this model.)
\*  - In any other text each call is replaced by the text of its value,
\*    left to right, and the result goes to evaluate_expression: the text
\*    of a number reads back as the number, that of a string as a name.
\*    (The arguments of these calls hold no call in the programs here.)
_eval_basic_expression(s, e) ==
    LET known(x) == x.k = "call" /\ x.name \in DOMAIN s.function_definitions
        RECURSIVE first(_)
        first(x) == IF x.k = "bin" THEN first(x.l) ELSE x
        RECURSIVE closes(_)
        closes(x) == IF x.k = "bin" THEN closes(x.r) ELSE x.k = "call"
        \* the text as the call it is taken for
        taken == IF e.k = "bin" /\ known(first(e)) /\ closes(e)
                 THEN [k |-> "call", name |-> first(e).name, arg |-> [k |-> "bad"]]
                 ELSE e
        value(u) ==
            IF known(taken) THEN [s |-> u.s, v |-> u.v, err |-> u.err]
            ELSE [s |-> ExpressionLog(u.s, u.e),
                  v |-> evaluate_expression(u.s, u.e), err |-> u.err]
    IN value(SubstituteCalls(s, taken))

\* _modern_function_define: record the body and leave current_line on
\* END FUNCTION
_modern_function_define(s, cmd) ==
    LET body_start == s.current_line + 1
        body_end == ScanBlock(body_start, 1, {"SUB", "FUNCTION"},
                              {"END SUB", "END FUNCTION"})
    IN Ret([s EXCEPT !.current_line = body_end,
                     !.function_definitions =
                         Put(@, cmd.name, [params |-> cmd.params,
                                           body_start |-> body_start,
                                           body_end |-> body_end])],
           "continue")

\* _modern_return: inside a call, RETURN with an expression sets return_value
\* and the variable RESULT
_modern_return(s, cmd) ==
    IF s.call_stack = << >> THEN _basic_return(s)
    ELSE IF "expr" \notin DOMAIN cmd THEN Ret(s, "return")
    ELSE LET return(r) ==
                 IF r.err # "" THEN Raise(r.s, r.err)
                 ELSE Ret([r.s EXCEPT !.return_value = r.v,
                                      !.variables = Put(@, "RESULT", r.v)],
                          "return")
         IN return(_eval_basic_expression(s, cmd.expr))

-----------------------------------------------------------------------------
(* LIST / FOREACH / REPEAT *)

\* _modern_list
_modern_list(s, cmd) ==
    Ret([s EXCEPT !.lists = Put(@, cmd.name, cmd.values)], "continue")

\* _modern_foreach up to the start of its item loop
_modern_foreach(s, cmd) ==
    LET body_start == s.current_line + 1
        body_end == ScanBlock(body_start, 1, {"FOR", "FOREACH"}, {"NEXT"})
    IN IF cmd.coll \notin DOMAIN s.lists \/ s.lists[cmd.coll] = << >>
       THEN Ret([s EXCEPT !.current_line = body_end], "continue")
       ELSE Ret([s EXCEPT !.variables = Put(@, cmd.var, s.lists[cmd.coll][1]),
                          !.frames = Append(@, [kind |-> "foreach",
                                                var1 |-> cmd.var,
                                                items |-> s.lists[cmd.coll],
                                                item |-> 1, i |-> 0,
                                                body_start |-> body_start,
                                                body_end |-> body_end])],
                "enter")

\* _logo_repeat up to the start of its loops.  cmds is the block as
\* _split_block_commands splits it: a new command starts at the words PRINT,
\* LET, IF, FOR, GOTO, END and REPEAT and after a closing bracket only, so
\* every command of a block but the first is one of these or follows a nested
\* block.
_logo_repeat(s, cmd) ==
    IF cmd.count <= 0 \/ cmd.cmds = << >> THEN Ret(s, "continue")
    ELSE Ret([s EXCEPT !.variables = Put(@, "REPCOUNT", Num(1)),
                       !.frames = Append(@, [kind |-> "repeat", cmds |-> cmd.cmds,
                                             count |-> cmd.count,
                                             it |-> 0, j |-> 1])],
             "enter")

-----------------------------------------------------------------------------
(* INPUT *)

\* the numeric conversion of _basic_input: float(value), else the text
InputValue(text) == IF text = "5" THEN Num(5) ELSE Str(text)

\* _basic_input once get_input has returned value
_basic_input(s, cmd, value) ==
    Ret([s EXCEPT !.variables = Put(@, cmd.var, InputValue(value))], "continue")

-----------------------------------------------------------------------------
(* CONST / ENUM *)

\* _modern_const: a name that is a constant already is left alone
_modern_const(s, cmd) ==
    IF cmd.name \in s.constants THEN Ret(s, "continue")
    ELSE LET define(r) ==
                 IF r.err # "" THEN Raise(r.s, r.err)
                 ELSE Ret([r.s EXCEPT !.variables = Put(@, cmd.name, r.v),
                                      !.constants = @ \cup {cmd.name}],
                          "continue")
         IN define(_eval_basic_expression(s, cmd.expr))

\* _modern_enum: the constants NAME_VAL1 = 0, NAME_VAL2 = 1, ... and the
\* variable NAME_COUNT
RECURSIVE _modern_enum(_, _, _)
_modern_enum(s, cmd, i) ==
    IF i > Len(cmd.values)
    THEN Ret([s EXCEPT !.variables = Put(@, cmd.name \o "_COUNT",
                                         Num(Len(cmd.values)))], "continue")
    ELSE LET key == cmd.name \o "_" \o cmd.values[i]
         IN _modern_enum([s EXCEPT !.variables = Put(@, key, Num(i - 1)),
                                   !.constants = @ \cup {key}], cmd, i + 1)

-----------------------------------------------------------------------------
(* DATA / READ / RESTORE *)

\* _basic_read: each variable takes the next DATA value; with none left the
\* remaining variables are left alone
RECURSIVE _basic_read(_, _, _)
_basic_read(s, cmd, i) ==
    IF i > Len(cmd.vars) \/ ~(s._data_pos < Len(s._data_values))
    THEN Ret(s, "continue")
    ELSE _basic_read([s EXCEPT !.variables =
                                   Put(@, cmd.vars[i],
                                       s._data_values[s._data_pos + 1]),
                               !._data_pos = @ + 1], cmd, i + 1)

\* _basic_restore
_basic_restore(s) == Ret([s EXCEPT !._data_pos = 0], "continue")

-----------------------------------------------------------------------------
(* PILOT: A: and M: *)

\* the characters of the texts of the model's programs and inputs
Text(t) ==
    CASE t = "" -> << >>
      [] t = "5" -> << "5" >>
      [] t = "h" -> << "h" >>
      [] t = "x" -> << "x" >>
      [] t = "hi" -> << "h", "i" >>
      [] t = "Hi" -> << "H", "i" >>
      [] t = "HI" -> << "H", "I" >>

\* str.lower
lower(cs) ==
    [i \in DOMAIN cs |-> CASE cs[i] = "H" -> "h" [] cs[i] = "I" -> "i"
                            [] OTHER -> cs[i]]

\* the operator in of two strings: p is a substring of a
Contains(a, p) ==
    \E i \in 0 .. Len(a) - Len(p) : SubSeq(a, i + 1, i + Len(p)) = p

\* _pilot_accept once get_input has returned value: the answer, converted to
\* a number if it reads as one, goes to system_vars["answer"], INPUT, ANSWER
\* and the variable A: names
_pilot_accept(s, cmd, value) ==
    LET v == InputValue(value)
        vs == Put(Put(s.variables, "INPUT", v), "ANSWER", v)
    IN Ret([s EXCEPT !.system_vars = Put(@, "answer", v),
                     !.variables = IF cmd.var # "" THEN Put(vs, cmd.var, v)
                                   ELSE vs],
           "continue")

\* _pilot_match: answer.lower() is an attribute error when the answer is a
\* number; empty patterns are skipped.  (Of system_vars the entry answer is
\* modelled, not matched and status.)
_pilot_match(s, cmd) ==
    LET answer == s.system_vars["answer"]
    IN IF answer.k # "str"
       THEN Raise(s, "'int' object has no attribute 'lower'")
       ELSE Ret([s EXCEPT !.match_flag =
                    \E k \in DOMAIN cmd.patterns :
                        /\ cmd.patterns[k] # ""
                        /\ Contains(lower(Text(answer.v)),
                                    lower(Text(cmd.patterns[k])))],
                "continue")

-----------------------------------------------------------------------------
(* PUSH / POP *)

\* _modern_push: PUSH list, value [, value ...] appends the values in order
\* to the list, which it creates when there is none
RECURSIVE _modern_push(_, _, _)
_modern_push(s, cmd, i) ==
    LET name == cmd.name
        created == IF name \in DOMAIN s.lists THEN s
                   ELSE [s EXCEPT !.lists = Put(@, name, << >>)]
        add(r) ==
            IF r.err # "" THEN Raise(r.s, r.err)
            ELSE _modern_push([r.s EXCEPT !.lists[name] = Append(@, r.v)],
                              cmd, i + 1)
    IN IF cmd.values = << >> THEN Ret(s, "continue")
       ELSE IF i > Len(cmd.values)
       THEN Ret([s EXCEPT !.variables =
                     Put(@, name \o "_LENGTH", Num(Len(s.lists[name])))],
                "continue")
       ELSE add(_eval_basic_expression(created, cmd.values[i]))

\* POP that removes the first element of the list
_modern_pop_first(s, cmd) ==
    LET name == cmd.name
    IN IF name \notin DOMAIN s.lists \/ s.lists[name] = << >>
       THEN Ret(s, "continue")
       ELSE LET val == Head(s.lists[name])
                rest == Tail(s.lists[name])
                stored == IF "var" \in DOMAIN cmd
                          THEN Put(s.variables, cmd.var, val) ELSE s.variables
            IN Ret([s EXCEPT !.lists[name] = rest,
                             !.variables = Put(stored, name \o "_LENGTH",
                                               Num(Len(rest)))],
                   "continue")

\* _modern_pop: POP list [, var] removes the last element and stores it in
\* var; an empty or undefined list is only reported
_modern_pop(s, cmd) ==
    LET name == cmd.name
    IN IF name \notin DOMAIN s.lists \/ s.lists[name] = << >>
       THEN Ret(s, "continue")
       ELSE LET val == Top(s.lists[name])
                rest == Pop(s.lists[name])
                stored == IF "var" \in DOMAIN cmd
                          THEN Put(s.variables, cmd.var, val) ELSE s.variables
            IN Ret([s EXCEPT !.lists[name] = rest,
                             !.variables = Put(stored, name \o "_LENGTH",
                                               Num(Len(rest)))],
                   "continue")

-----------------------------------------------------------------------------
(* Turtle graphics *)

\* A coordinate of the turtle is a float.  v is its value in exact arithmetic
\* and e counts the inexact terms added to it, each one a distance times the
\* residue (below 2^-52) that math.cos or math.sin leaves where the exact
\* value is 0.
\* init_turtle_graphics: the record a first turtle command creates; lines
\* counts the create_line requests that reached the canvas
InitTurtle ==
    [x |-> [v |-> 0, e |-> 0], y |-> [v |-> 0, e |-> 0], heading |-> 0,
     pen_down |-> TRUE, lines |-> 0]

\* _canvas_safe(canvas, "create_line", ...): on the main thread the canvas is
\* called; on the worker thread of the IDE the call is handed to
\* output_widget.call_on_main, which the output widget of the IDE (a
\* ScrolledText) does not have, and nothing is called
_draw_line(tg) ==
    IF gui THEN tg ELSE [tg EXCEPT !.lines = @ + 1]

\* turtle_forward (move_turtle).  Cos and Sin are
\* math.cos(math.radians(90 - heading)) and math.sin of the same angle, for
\* the headings a program of right angles reaches.
turtle_forward(s0, distance) ==
    LET s == IF s0.turtle_graphics # << >> THEN s0
             ELSE [s0 EXCEPT !.turtle_graphics = InitTurtle]
        tg == s.turtle_graphics
        Cos == CASE tg.heading = 0 -> [v |-> 0, e |-> 1]
                 [] tg.heading = 90 -> [v |-> 1, e |-> 0]
                 [] tg.heading = 180 -> [v |-> 0, e |-> 1]
                 [] tg.heading = 270 -> [v |-> 0 - 1, e |-> 0]
        Sin == CASE tg.heading = 0 -> [v |-> 1, e |-> 0]
                 [] tg.heading = 90 -> [v |-> 0, e |-> 0]
                 [] tg.heading = 180 -> [v |-> 0 - 1, e |-> 0]
                 [] tg.heading = 270 -> [v |-> 0, e |-> 1]
        Advance(old, factor) ==
            [v |-> old.v + distance * factor.v,
             e |-> old.e + (IF distance = 0 THEN 0 ELSE factor.e)]
        Float(c) == IF c.e = 0 THEN Num(c.v)
                    ELSE [k |-> "num", v |-> c.v, e |-> c.e]
        new_x == Advance(tg.x, Cos)
        new_y == Advance(tg.y, Sin)
        moved == [tg EXCEPT !.x = new_x, !.y = new_y]
    IN [s EXCEPT !.turtle_graphics =
                     IF tg.pen_down THEN _draw_line(moved) ELSE moved,
                 !.variables =
                     Put(Put(Put(@, "TURTLE_X", Float(new_x)),
                             "TURTLE_Y", Float(new_y)),
                         "TURTLE_HEADING", Num(tg.heading))]

\* _dispatch_logo for FORWARD, RIGHT, PENUP, PENDOWN and SQUARE, each handler
\* after its _ensure_turtle.  arg is _eval_logo_arg: the argument as a float, 0
\* when it is missing or no number.  SQUARE makes four passes of
\* move_turtle(side) and a right turn by 90, its side 50 when none is given.
_dispatch_logo(s0, cmd) ==
    LET ensured == IF s0.turtle_graphics # << >> THEN s0
                   ELSE [s0 EXCEPT !.turtle_graphics = InitTurtle]
        s == ExpressionLog(ensured, Get(cmd, "arg", Num(0)))
        value == evaluate_expression(s0, Get(cmd, "arg", Num(0)))
        arg == IF value.k = "num" THEN value.v ELSE 0
        side == IF "arg" \in DOMAIN cmd THEN arg ELSE 50
        RECURSIVE _logo_square(_, _)
        _logo_square(sq, n) ==
            IF n = 0 THEN sq
            ELSE _logo_square([turtle_forward(sq, side) EXCEPT
                                  !.turtle_graphics.heading = (@ + 90) % 360],
                              n - 1)
    IN CASE cmd.op = "FORWARD" -> Ret(turtle_forward(s, arg), "continue")
         [] cmd.op = "RIGHT" ->
              Ret([s EXCEPT !.turtle_graphics.heading = (@ + arg) % 360],
                  "continue")
         [] cmd.op = "PENUP" ->
              Ret([s EXCEPT !.turtle_graphics.pen_down = FALSE], "continue")
         [] cmd.op = "PENDOWN" ->
              Ret([s EXCEPT !.turtle_graphics.pen_down = TRUE], "continue")
         [] cmd.op = "SQUARE" -> Ret(_logo_square(s, 4), "continue")

\* _pilot_call: C:*label pushes the current line and jumps to the label (an
\* unknown label is only printed); C:name=expr assigns
_pilot_call(s, cmd) ==
    IF "label" \in DOMAIN cmd
    THEN IF cmd.label \in DOMAIN labels
         THEN Ret([s EXCEPT !.return_stack = Append(@, s.current_line),
                            !.current_line = labels[cmd.label]], "jump")
         ELSE Ret(s, "continue")
    ELSE Ret([ExpressionLog(s, cmd.expr) EXCEPT
                 !.variables = Put(@, cmd.var, evaluate_expression(s, cmd.expr))],
             "continue")

\* _pilot_end: return to the line pushed last (the loop then adds one), or
\* end the program
_pilot_end(s) ==
    IF s.return_stack # << >>
    THEN Ret([s EXCEPT !.current_line = Top(s.return_stack),
                       !.return_stack = Pop(@)], "continue")
    ELSE Ret([s EXCEPT !.running = FALSE], "end")

-----------------------------------------------------------------------------
(* The dispatcher *)

\* execute_command and _dispatch_basic
execute_command(s, cmd) ==
    CASE cmd.op \in {"BLANK", "LABEL", "PRINT"} -> Ret(s, "continue")
      \* a first word that no branch of _dispatch_basic knows: printed only
      [] cmd.op = "UNKNOWN" -> Ret(s, "continue")
      [] cmd.op = "CONST" -> _modern_const(s, cmd)
      [] cmd.op = "ENUM" -> _modern_enum(s, cmd, 1)
      [] cmd.op = "DATA" -> Ret(s, "continue")
      [] cmd.op = "READ" -> _basic_read(s, cmd, 1)
      [] cmd.op = "RESTORE" -> _basic_restore(s)
      [] cmd.op = "LET" -> _basic_let(s, cmd)
      [] cmd.op = "INCR" -> _basic_incr_decr(s, cmd)
      [] cmd.op = "GOTO" -> _basic_goto(s, cmd)
      [] cmd.op = "GOSUB" -> _basic_gosub(s, cmd)
      [] cmd.op = "FOR" -> _basic_for(s, cmd)
      [] cmd.op = "NEXT" -> _basic_next(s, cmd)
      [] cmd.op = "WHILE" -> _basic_while(s, cmd)
      [] cmd.op = "WEND" -> _basic_wend(s)
      [] cmd.op = "DO" -> _basic_do(s, cmd)
      [] cmd.op = "LOOP" -> _basic_loop(s, cmd)
      [] cmd.op = "BREAK" -> Ret(s, "break")
      [] cmd.op = "IF" -> IF _eval_basic_condition(s, cmd.cond)
                          THEN execute_command(s, cmd.then)
                          ELSE Ret(s, "continue")
      [] cmd.op = "IF THEN" -> _basic_if(s, cmd)
      [] cmd.op \in {"ELSE", "ELSEIF"} -> _basic_else(s)
      [] cmd.op = "END IF" -> Ret(s, "continue")
      [] cmd.op = "SELECT" -> _basic_select(s, cmd)
      [] cmd.op \in {"CASE", "CASE ELSE"} -> _basic_case(s, cmd)
      [] cmd.op = "END SELECT" ->
            Ret(IF s.select_stack # << >>
                THEN [s EXCEPT !.select_stack = Pop(@)] ELSE s, "continue")
      [] cmd.op = "END" -> EndProgram(s)
      [] cmd.op = "END TRY" -> EndTry(s)
      [] cmd.op \in {"END SUB", "END FUNCTION"} -> Ret(s, "return")
      [] cmd.op = "TRY" -> _modern_try(s)
      [] cmd.op = "CATCH" -> _modern_catch(s)
      [] cmd.op = "THROW" -> _modern_throw(s, cmd)
      [] cmd.op = "ASSERT" -> _modern_assert(s, cmd)
      [] cmd.op = "SUB" -> _modern_sub_define(s, cmd)
      [] cmd.op = "FUNCTION" -> _modern_function_define(s, cmd)
      [] cmd.op = "CALL" -> _modern_call(s, cmd)
      [] cmd.op = "RETURN" -> _modern_return(s, cmd)
      [] cmd.op = "LIST" -> _modern_list(s, cmd)
      [] cmd.op = "FOREACH" -> _modern_foreach(s, cmd)
      [] cmd.op = "REPEAT" -> _logo_repeat(s, cmd)
      [] cmd.op = "INPUT" ->
            IF s.input_buffer # << >>
            THEN _basic_input([s EXCEPT !.input_buffer = Tail(@)], cmd,
                              Head(s.input_buffer))
            ELSE Raise(s, "EOF when reading a line")
      [] cmd.op = "A:" ->
            IF s.input_buffer # << >>
            THEN _pilot_accept([s EXCEPT !.input_buffer = Tail(@)], cmd,
                               Head(s.input_buffer))
            ELSE Raise(s, "EOF when reading a line")
      [] cmd.op = "M:" -> _pilot_match(s, cmd)
      [] cmd.op = "C:" -> _pilot_call(s, cmd)
      [] cmd.op = "PUSH" -> _modern_push(s, cmd, 1)
      [] cmd.op = "POP" -> _modern_pop(s, cmd)
      [] cmd.op \in {"FORWARD", "RIGHT", "PENUP", "PENDOWN", "SQUARE"} ->
           _dispatch_logo(s, cmd)
      [] cmd.op = "E:" -> _pilot_end(s)

\* execute_line: run the command; an exception that leaves it unwinds every
\* nested body loop and is routed to the CATCH of the innermost TRY frame,
\* or logged and turned into "error"
execute_line(s, cmd) ==
    LET r == execute_command(s, cmd)
    IN IF r.result # "raise" THEN r
       ELSE LET u == [r.s EXCEPT !.frames = << >>]
            IN IF u.try_stack # << >> /\ Top(u.try_stack).catch_line # None
               THEN Ret(BindCaught(u, Top(u.try_stack).catch_line, r.err), "jump")
               ELSE Ret(log_error(u, "Execution error"), "error")

-----------------------------------------------------------------------------
(* The nested body loops *)

\* run_program after its while loop: report a tripped guard, clear running
Finish(s) ==
    LET s1 == IF s.iterations >= max_iterations
              THEN log_error(s, "Maximum iterations reached (possible infinite loop)")
              ELSE s
    IN [s1 EXCEPT !.running = FALSE, !.pc = "done"]

\* the loop condition of the innermost loop with the iteration test left out
LoopCondUnguarded(s) ==
    IF s.frames = << >>
    THEN s.current_line < NumLines /\ s.running
    ELSE LET f == Top(s.frames)
         IN CASE f.kind = "sub" -> s.current_line < f.body_end
              [] f.kind = "foreach" -> f.i < f.body_end - f.body_start
              [] f.kind = "repeat" -> f.j <= Len(f.cmds)

\* the loop condition of the innermost body loop
LoopCond(s) ==
    IF s.frames = << >>
    THEN s.current_line < NumLines /\ s.running /\ s.iterations < max_iterations
    ELSE LET f == Top(s.frames)
         IN CASE f.kind = "sub" -> s.current_line < f.body_end
              [] f.kind = "foreach" -> f.i < f.body_end - f.body_start
              [] f.kind = "repeat" -> f.j <= Len(f.cmds)

\* the program line the innermost loop fetches next (None inside REPEAT)
NextLine(s) ==
    IF s.frames = << >> THEN s.current_line
    ELSE LET f == Top(s.frames)
         IN CASE f.kind = "sub" -> s.current_line
              [] f.kind = "foreach" -> f.body_start + f.i
              [] f.kind = "repeat" -> None

\* the command the innermost loop fetches next
CurCmd(s) ==
    IF s.frames # << >> /\ Top(s.frames).kind = "repeat"
    THEN Top(s.frames).cmds[Top(s.frames).j]
    ELSE Line(NextLine(s))

SetTop(s, f) == [s EXCEPT !.frames = [@ EXCEPT ![Len(@)] = f]]

\* What the innermost loop does with the result of the statement it ran:
\* run_program, _execute_sub_or_function, _modern_foreach, _logo_repeat.
\* A loop that ends on the result returns its own result to the loop below.
RECURSIVE Deliver(_, _)
Deliver(s, result) ==
    IF s.frames = << >>
    THEN CASE result \in {"end", "return"} -> Finish(s)
           [] result = "jump" -> s
           [] result = "error" /\ ~debug_mode -> Finish(s)
           [] OTHER -> [s EXCEPT !.current_line = @ + 1]
    ELSE LET f == Top(s.frames)
         IN CASE f.kind = "sub" ->
                   CASE result \in {"return", "end"} -> Deliver(SubExit(s), "continue")
                     [] result = "jump" -> s
                     [] OTHER -> [s EXCEPT !.current_line = @ + 1]
              [] f.kind = "foreach" ->
                   CASE result \in {"end", "stop", "return"} ->
                          Deliver([s EXCEPT !.current_line = f.body_end,
                                            !.frames = Pop(@)], result)
                     [] result = "break" ->
                          Deliver([s EXCEPT !.current_line = f.body_end,
                                            !.frames = Pop(@)], "continue")
                     [] OTHER ->
                          LET n == f.body_end - f.body_start
                              last == IF s.current_line - f.body_start < n - 1
                                      THEN s.current_line - f.body_start ELSE n - 1
                              i1 == IF last > f.i THEN last ELSE f.i
                          IN SetTop(s, [f EXCEPT !.i = i1 + 1])
              [] f.kind = "repeat" ->
                   CASE result \in {"end", "stop"} ->
                          Deliver([s EXCEPT !.frames = Pop(@)], result)
                     [] OTHER -> SetTop(s, [f EXCEPT !.j = @ + 1])

\* The innermost loop finds its condition false.
LoopExit(s) ==
    IF s.frames = << >> THEN Finish(s)
    ELSE LET f == Top(s.frames)
         IN CASE f.kind = "sub" -> Deliver(SubExit(s), "continue")
              [] f.kind = "foreach" ->
                   IF f.item < Len(f.items)
                   THEN SetTop([s EXCEPT !.variables =
                                    Put(@, f.var1, f.items[f.item + 1])],
                               [f EXCEPT !.item = @ + 1, !.i = 0])
                   ELSE Deliver([s EXCEPT !.current_line = f.body_end,
                                          !.frames = Pop(@)], "continue")
              [] f.kind = "repeat" ->
                   IF f.it + 1 < f.count
                   THEN SetTop([s EXCEPT !.variables =
                                    Put(@, "REPCOUNT", Num(f.it + 2))],
                               [f EXCEPT !.it = @ + 1, !.j = 1])
                   ELSE Deliver([s EXCEPT !.frames = Pop(@)], "continue")

\* What the innermost loop does between its condition and the dispatch
Fetch(s) ==
    IF s.frames = << >> THEN [s EXCEPT !.iterations = @ + 1]
    ELSE IF Top(s.frames).kind = "foreach" /\ CurCmd(s).op # "BLANK"
    THEN [s EXCEPT !.current_line = NextLine(s)]
    ELSE s

\* One iteration of the innermost loop on a statement that does not wait
Iterate(s) ==
    LET r == execute_line(Fetch(s), CurCmd(s))
    IN IF r.result = "enter" THEN r.s ELSE Deliver(r.s, r.result)

NeedsInput(s) == CurCmd(s).op \in {"INPUT", "A:"} /\ s.input_buffer = << >>

-----------------------------------------------------------------------------
(* The worker thread *)

Install(s) ==
    /\ current_line' = s.current_line
    /\ running' = s.running
    /\ iterations' = s.iterations
    /\ error_history' = s.error_history
    /\ variables' = s.variables
    /\ lists' = s.lists
    /\ for_stack' = s.for_stack
    /\ while_stack' = s.while_stack
    /\ do_stack' = s.do_stack
    /\ try_stack' = s.try_stack
    /\ call_stack' = s.call_stack
    /\ stack' = s.stack
    /\ select_stack' = s.select_stack
    /\ sub_definitions' = s.sub_definitions
    /\ function_definitions' = s.function_definitions
    /\ return_value' = s.return_value
    /\ _data_values' = s._data_values
    /\ _data_pos' = s._data_pos
    /\ constants' = s.constants
    /\ system_vars' = s.system_vars
    /\ match_flag' = s.match_flag
    /\ return_stack' = s.return_stack
    /\ turtle_graphics' = s.turtle_graphics
    /\ logo_procedures' = s.logo_procedures
    /\ input_buffer' = s.input_buffer
    /\ frames' = s.frames
    /\ pc' = s.pc

\* load_program: the values of the DATA lines from line i on, in textual
\* order, appended to _data_values; a literal that reads as a number is
\* stored as the number
RECURSIVE DataValues(_, _)
DataValues(lines, i) ==
    IF i > Len(lines) THEN << >>
    ELSE (IF lines[i].op = "DATA"
          THEN [k \in DOMAIN lines[i].values |->
                   LET val == lines[i].values[k]
                   IN IF val.k = "str" THEN InputValue(val.v) ELSE val]
          ELSE << >>) \o DataValues(lines, i + 1)

\* _preprocess_logo_program from line i of the text on: a TO line opens a
\* procedure whose body is every line up to the next line END, or up to the
\* end of the text when there is none; the TO line, the body and the END are
\* taken out of the program and the body (without blank lines) is kept under
\* the name.  (A REPEAT block of the model is written on one line.)
RECURSIVE _preprocess_logo_program(_, _, _, _)
_preprocess_logo_program(lines, i, processed, procs) ==
    IF i > Len(lines) THEN [lines |-> processed, procs |-> procs]
    ELSE IF lines[i].op = "TO"
    THEN LET ends == {j \in i + 1 .. Len(lines) : lines[j].op = "END"}
             stop == IF ends = {} THEN Len(lines) + 1
                     ELSE CHOOSE j \in ends : \A m \in ends : j <= m
             body == SelectSeq(SubSeq(lines, i + 1, stop - 1),
                               LAMBDA l : l.op # "BLANK")
         IN _preprocess_logo_program(lines, stop + 1, processed,
                Put(procs, lines[i].name,
                    [params |-> lines[i].params, body |-> body]))
    ELSE _preprocess_logo_program(lines, i + 1, Append(processed, lines[i]),
                                  procs)

\* run_program up to its while loop: the procedures are reset and collected
\* again by _preprocess_logo_program, then load_program stores the lines, resets the loop stacks,
\* the error history, the match flag and the running flag and collects the
\* DATA values, then running is set
run_program ==
    LET loaded == _preprocess_logo_program(program_text, 1, << >>, << >>)
    IN /\ pc = "start"
       /\ program_lines' = loaded.lines
       /\ Install([St EXCEPT !.current_line = 0, !.for_stack = << >>,
                             !.do_stack = << >>, !.while_stack = << >>,
                             !.stack = << >>, !.select_stack = << >>,
                             !.error_history = << >>, !.match_flag = FALSE,
                             !.logo_procedures = loaded.procs,
                             !._data_values = @ \o DataValues(loaded.lines, 1),
                             !.running = TRUE,
                             !.iterations = 0, !.pc = "run"])
       /\ UNCHANGED << _history, _index, history_result, program_text, gui, debug_mode, runs, executed,
                       _input_event, _input_result, _waiting_for_input,
                       _is_running, host_pc, cancelled >>

\* the line recorded in the history for the statement fetched next (the
\* commands of a REPEAT block are recorded under the REPEAT line)
FetchedLine == IF NextLine(St) = None THEN current_line ELSE NextLine(St)

\* one iteration of the innermost loop: fetch a statement and execute it
FetchExecute ==
    /\ pc = "run"
    /\ LoopCond(St)
    /\ ~NeedsInput(St)
    /\ Install(Iterate(St))
    /\ executed' = IF CurCmd(St).op = "BLANK" THEN executed
                   ELSE executed \cup {FetchedLine}
    /\ UNCHANGED << _history, _index, history_result, program_text, program_lines, gui, debug_mode, runs, _input_event,
                    _input_result, _waiting_for_input, _is_running, host_pc,
                    cancelled >>

\* the innermost loop ends: the handler that ran it returns to the loop below
LoopEnd ==
    /\ pc = "run"
    /\ ~LoopCond(St)
    /\ Install(LoopExit(St))
    /\ UNCHANGED << _history, _index, history_result, program_text, program_lines, gui, debug_mode, runs, executed, _input_event,
                    _input_result, _waiting_for_input, _is_running, host_pc,
                    cancelled >>

\* an INPUT statement is fetched with the buffer empty: get_user_input is
\* entered and has found nothing to pop
InputRequest ==
    /\ pc = "run"
    /\ LoopCond(St)
    /\ NeedsInput(St)
    /\ Install([Fetch(St) EXCEPT !.pc = "input_enter"])
    /\ executed' = executed \cup {FetchedLine}
    /\ UNCHANGED << _history, _index, history_result, program_text, program_lines, gui, debug_mode, runs, _input_event,
                    _input_result, _waiting_for_input, _is_running, host_pc,
                    cancelled >>

\* get_user_input, GUI branch: publish a fresh event and block on it
InputBlock ==
    /\ pc = "input_enter"
    /\ gui
    /\ _input_result' = ""
    /\ _input_event' = "clear"
    /\ _waiting_for_input' = TRUE
    /\ pc' = "input_wait"
    /\ UNCHANGED << _history, _index, history_result, program_text, program_lines, gui, debug_mode, runs, current_line, running,
                    iterations, error_history, variables, lists, for_stack,
                    while_stack, do_stack, try_stack, call_stack, stack,
                    select_stack, sub_definitions, function_definitions,
                    return_value, _data_values, _data_pos, constants,
                    system_vars, match_flag, return_stack, turtle_graphics,
                    logo_procedures, input_buffer, frames, executed,
                    _is_running, host_pc, cancelled >>

\* the statement that asked for input resumes with value
Resume(value) ==
    Deliver((IF CurCmd(St).op = "A:"
             THEN _pilot_accept([St EXCEPT !.pc = "run"], CurCmd(St), value)
             ELSE _basic_input([St EXCEPT !.pc = "run"], CurCmd(St), value)).s,
            "continue")

\* get_user_input, GUI branch: event.wait() returns
InputReturn ==
    /\ pc = "input_wait"
    /\ _input_event = "set"
    /\ _waiting_for_input' = FALSE
    /\ _input_event' = "none"
    /\ Install(Resume(_input_result))
    /\ UNCHANGED << _history, _index, history_result, program_text, program_lines, gui, debug_mode, runs, executed, _input_result,
                    _is_running, host_pc, cancelled >>

InputTexts == {"5", "hi", "Hi"}

\* get_user_input, terminal branch: input() returns what the user typed
TerminalInput ==
    /\ pc = "input_enter"
    /\ ~gui
    /\ \E text \in InputTexts : Install(Resume(text))
    /\ UNCHANGED << _history, _index, history_result, program_text, program_lines, gui, debug_mode, runs, executed, _input_event,
                    _input_result, _waiting_for_input, _is_running, host_pc,
                    cancelled >>

Worker == run_program \/ FetchExecute \/ LoopEnd \/ InputRequest
          \/ InputBlock \/ InputReturn

-----------------------------------------------------------------------------
(* The IDE thread *)

InterpreterVars == << current_line, iterations, error_history, variables, lists,
                      for_stack, while_stack, do_stack, try_stack, call_stack,
                      stack, select_stack, sub_definitions,
                      function_definitions, return_value, _data_values,
                      _data_pos, constants, system_vars, match_flag,
                      return_stack, turtle_graphics, logo_procedures,
                      frames, pc, executed >>

\* stop_code, first half: clear the running flag
StopSetRunning ==
    /\ gui
    /\ _is_running
    /\ host_pc \in {"idle", "stopped"}
    /\ running' = FALSE
    /\ host_pc' = "cancel"
    /\ cancelled' = IF pc = "input_wait" /\ _input_event = "clear"
                    THEN "pending" ELSE "no"
    /\ UNCHANGED << _history, _index, history_result, program_text, program_lines, gui, debug_mode, runs, InterpreterVars,
                    input_buffer, _input_event, _input_result,
                    _waiting_for_input, _is_running >>

\* stop_code, second half: unblock a waiting input request
StopCancelInput ==
    /\ host_pc = "cancel"
    /\ host_pc' = "stopped"
    /\ IF _input_event # "none"
       THEN /\ _input_result' = ""
            /\ _input_event' = "set"
            /\ cancelled' = IF cancelled = "pending" THEN "yes" ELSE cancelled
       ELSE UNCHANGED << _input_result, _input_event, cancelled >>
    /\ UNCHANGED << _history, _index, history_result, program_text, program_lines, gui, debug_mode, runs, InterpreterVars, running,
                    input_buffer, _waiting_for_input, _is_running >>

\* _submit_input: hand the text to a waiting request, else queue it
_submit_input ==
    /\ gui
    /\ \E value \in InputTexts :
          IF _input_event # "none"
          THEN /\ _input_result' = value
               /\ _input_event' = "set"
               /\ cancelled' = IF cancelled = "yes" THEN "no" ELSE cancelled
               /\ UNCHANGED input_buffer
          ELSE /\ Len(input_buffer) < MaxBuffer
               /\ input_buffer' = Append(input_buffer, value)
               /\ UNCHANGED << _input_result, _input_event, cancelled >>
    /\ UNCHANGED << _history, _index, history_result, program_text, program_lines, gui, debug_mode, runs, InterpreterVars, running,
                    _waiting_for_input, _is_running, host_pc >>

\* _on_run_finished, scheduled by the worker when run_program has returned
_on_run_finished ==
    /\ gui
    /\ pc = "done"
    /\ _is_running
    /\ _is_running' = FALSE
    /\ UNCHANGED << _history, _index, history_result, program_text, program_lines, gui, debug_mode, runs, InterpreterVars, running,
                    input_buffer, _input_event, _input_result,
                    _waiting_for_input, host_pc, cancelled >>

\* run_code: the user starts the program again on the same interpreter, with
\* the canvas cleared and a new turtle
\* (run_code and stop_code both run on the IDE thread)
run_code ==
    /\ gui
    /\ ~_is_running
    /\ host_pc # "cancel"
    /\ runs < MaxRuns
    /\ _is_running' = TRUE
    /\ runs' = runs + 1
    /\ pc' = "start"
    /\ executed' = {}
    /\ turtle_graphics' = InitTurtle
    /\ UNCHANGED << _history, _index, history_result, program_text, program_lines, gui, debug_mode, current_line, running,
                    iterations, error_history, variables, lists, for_stack,
                    while_stack, do_stack, try_stack, call_stack, stack,
                    select_stack, sub_definitions, function_definitions,
                    return_value, _data_values, _data_pos, constants,
                    system_vars, match_flag, return_stack,
                    logo_procedures, input_buffer, frames, _input_event,
                    _input_result, _waiting_for_input, host_pc, cancelled >>

-----------------------------------------------------------------------------
(* Programs *)

Steps == {0 - 2, 0 - 1, 1, 2}

\* FOR I = a TO b STEP st / INCR N / NEXT I / PRINT "done"
ForProgram(a, b, st) ==
    << S_FOR("I", Num(a), Num(b), Num(st)), S_INCR("N"), S_NEXT("I"),
       S_PRINT("done") >>

\* FOR I = a TO b / FOR J = 1 TO 2 / INCR N / NEXT J / INCR M / NEXT I / PRINT
NestedForProgram(a, b) ==
    << S_FOR("I", Num(a), Num(b), Num(1)), S_FOR("J", Num(1), Num(2), Num(1)),
       S_INCR("N"), S_NEXT("J"), S_INCR("M"), S_NEXT("I"), S_PRINT("done") >>

ForPrograms ==
    {ForProgram(a, b, st) : a \in 0 .. MaxForBound, b \in 0 .. MaxForBound,
                            st \in Steps}
    \cup {NestedForProgram(a, b) : a \in 0 .. MaxForBound, b \in 0 .. MaxForBound}

\* label: / GOTO label
GotoCycle == << S_LABEL("label"), S_GOTO("label") >>

\* a FOR loop whose body resets the control variable
ForReset ==
    << S_FOR("I", Num(1), Num(2), Num(1)), S_LET("I", Num(0)), S_NEXT("I"),
       S_PRINT("never") >>

RunawayPrograms == {GotoCycle, ForReset}

\* FOR I = 1 TO 99999 / NEXT I: the program runs past its last line after as
\* many statements as the guard allows
HaltsAtLimit ==
    << S_FOR("I", Num(1), Num(max_iterations - 1), Num(1)), S_NEXT("I") >>

\* test_throw_skips_remaining_try_body
ThrowInTry ==
    << S_LET("X", Num(0)), S_TRY, S_THROW("stop"), S_LET("X", Num(99)),
       S_CATCH("E"), S_PRINT("caught"), S_END_TRY, S_PRINT("after") >>

\* a TRY block inside a FOREACH body
TryInForeach ==
    << S_LIST("L", << Num(1), Num(2) >>), S_FOREACH("V", "L"), S_TRY,
       S_THROW("x"), S_PRINT("no"), S_CATCH("E"), S_INCR("C1"), S_INCR("C2"),
       S_END_TRY, S_NEXT("V"), S_PRINT("after") >>

\* a TRY block inside a SUB body
TryInSub ==
    << S_SUB("S", << >>), S_TRY, S_THROW("x"), S_PRINT("no"), S_CATCH("E"),
       S_INCR("C1"), S_END_TRY, S_END_SUB, S_CALL("S", << >>), S_PRINT("after") >>

\* THROW in a FOREACH body entered from the TRY body
ForeachInTry ==
    << S_LIST("L", << Num(1), Num(2) >>), S_TRY, S_FOREACH("V", "L"),
       S_INCR("N"), S_THROW("x"), S_NEXT("V"), S_PRINT("try-after"),
       S_CATCH("E"), S_INCR("C1"), S_END_TRY, S_PRINT("after") >>

\* THROW in a SUB body entered from the TRY body
SubInTry ==
    << S_SUB("S", << "P" >>), S_INCR("N"), S_THROW("x"), S_PRINT("sub-after"),
       S_END_SUB, S_TRY, S_CALL("S", << Num(7) >>), S_PRINT("try-after"),
       S_CATCH("E"), S_INCR("C1"), S_END_TRY, S_PRINT("after") >>

\* a runtime fault (FOR with a non-numeric bound) in a SUB body entered from
\* the TRY body
FaultInSubInTry ==
    << S_SUB("S", << >>), S_FOR("I", Str("a"), Num(3), Num(1)),
       S_PRINT("sub-after"), S_END_SUB, S_TRY, S_CALL("S", << >>),
       S_PRINT("try-after"), S_CATCH("E"), S_INCR("C1"), S_END_TRY,
       S_PRINT("after") >>

\* test_nested_try, followed by a fault in the outer body
NestedTry(inner) ==
    << S_TRY, S_TRY, inner, S_CATCH("E1"), S_INCR("C1"), S_END_TRY,
       S_THROW("outer"), S_PRINT("no"), S_CATCH("E2"), S_INCR("C2"), S_END_TRY,
       S_PRINT("after") >>

\* SUB S(P) / fault / PRINT / END SUB / LET P = 4 / TRY / CALL S(7) / PRINT /
\* CATCH E / LET SEEN = P / END TRY / RETURN / INCR AFTER
FaultInCallCaught(fault) ==
    << S_SUB("S", << "P" >>), fault, S_PRINT("sub-after"), S_END_SUB,
       S_LET("P", Num(4)), S_TRY, S_CALL("S", << Num(7) >>),
       S_PRINT("try-after"), S_CATCH("E"), S_LET("SEEN", Var("P")), S_END_TRY,
       S_RETURN, S_INCR("AFTER") >>

\* TRY / THROW "a" / CATCH E / INCR C1 / IF C1 < 2 THEN THROW "b" / INCR C2 /
\* END TRY / INCR AFTER, alone (opener and closer blank) or as the body of an
\* outer TRY / ... / INCR D / CATCH E2 / INCR C3 / END TRY
ThrowInCatch(opener, closer) ==
    << opener, S_TRY, S_THROW("a"), S_CATCH("E"), S_INCR("C1"),
       S_IFTHEN(Cond(Var("C1"), "<", Num(2)), S_THROW("b")), S_INCR("C2"),
       S_END_TRY, S_INCR("D") >>
    \o closer \o << S_INCR("AFTER") >>

ThrowInCatchPrograms ==
    {ThrowInCatch(S_BLANK, << >>),
     ThrowInCatch(S_TRY, << S_CATCH("E2"), S_INCR("C3"), S_END_TRY >>)}

TryPrograms ==
    {ThrowInTry, TryInForeach, TryInSub, ForeachInTry, SubInTry, FaultInSubInTry,
     NestedTry(S_THROW("inner")), NestedTry(S_PRINT("fine"))}
    \cup ThrowInCatchPrograms

\* a fault with no TRY block around it
FaultProgram(fault) == << S_PRINT("before"), fault, S_INCR("AFTER") >>

FaultInSub(fault) ==
    << S_SUB("S", << >>), fault, S_INCR("AFTER"), S_END_SUB, S_CALL("S", << >>),
       S_INCR("AFTER") >>

Faults == {S_THROW("x"), S_ASSERT(False, "bad"),
           S_FOR("I", Str("a"), Num(3), Num(1))}

FaultPrograms ==
    {FaultProgram(f) : f \in Faults} \cup {FaultInSub(f) : f \in Faults}
        \cup {FaultInCallCaught(f) : f \in Faults}

LessThan3(x) == Cond(Var(x), "<", Num(3))

\* the loops of test_break_exits_while / test_break_exits_for, with the
\* statement under test first in the body (brk is BREAK, or a PRINT for the
\* same loop without it)
WhileLoop(brk) ==
    << S_LET("I", Num(0)), S_WHILE(LessThan3("I")), S_INCR("I"), brk,
       S_INCR("M"), S_WEND, S_PRINT("after") >>

ForLoop(brk) ==
    << S_FOR("I", Num(1), Num(3), Num(1)), S_INCR("N"), brk, S_INCR("M"),
       S_NEXT("I"), S_PRINT("after") >>

DoLoop(brk) ==
    << S_LET("I", Num(0)), S_DO("", True), S_INCR("I"), brk, S_INCR("M"),
       S_LOOP("WHILE", LessThan3("I")), S_PRINT("after") >>

ForeachLoop(brk) ==
    << S_LIST("L", << Num(1), Num(2) >>), S_FOREACH("V", "L"), S_INCR("N"), brk,
       S_INCR("M"), S_NEXT("V"), S_PRINT("after") >>

BreakStatements ==
    {S_BREAK, S_IFTHEN(Cond(Var("I"), "=", Num(2)), S_BREAK), S_PRINT("body")}

LoopPrograms ==
    UNION {{WhileLoop(k), ForLoop(k), DoLoop(k), ForeachLoop(k)} :
              k \in BreakStatements}

\* INPUT at top level, in a SUB body, in a FOREACH body, in a REPEAT block
InputTop ==
    << S_PRINT("ask"), S_INPUT("X"), S_LET("AFTER", Num(1)), S_PRINT("end") >>

InputInSub ==
    << S_SUB("S", << >>), S_INPUT("X"), S_LET("AFTER", Num(1)), S_END_SUB,
       S_CALL("S", << >>), S_PRINT("end") >>

InputInForeach ==
    << S_LIST("L", << Num(1), Num(2) >>), S_FOREACH("V", "L"), S_INPUT("X"),
       S_LET("AFTER", Num(1)), S_NEXT("V"), S_PRINT("end") >>

InputInRepeat ==
    << S_REPEAT(2, << S_INPUT("X"), S_LET("AFTER", Num(1)) >>), S_PRINT("end") >>

InputPrograms == {InputTop, InputInSub, InputInForeach, InputInRepeat}

\* a GOTO cycle inside a SUB body; the same SUB called from a REPEAT block
GotoCycleInSub ==
    << S_SUB("S", << >>), S_LABEL("spin"), S_GOTO("spin"), S_END_SUB,
       S_CALL("S", << >>), S_PRINT("end") >>

GotoCycleInRepeat ==
    << S_SUB("S", << >>), S_LABEL("spin"), S_GOTO("spin"), S_END_SUB,
       S_REPEAT(2, << S_CALL("S", << >>) >>), S_PRINT("end") >>

\* a REPEAT block and a SUB that return; RETURN and END inside the bodies
Returning ==
    << S_SUB("S", << "P" >>), S_INCR("N"), S_RETURN, S_INCR("M"), S_END_SUB,
       S_LET("P", Num(4)), S_REPEAT(2, << S_CALL("S", << Var("REPCOUNT") >>) >>),
       S_BLANK, S_GOTO("nowhere"), S_CALL("S", << >>), S_RETURN, S_END,
       S_PRINT("never") >>

EndInRepeat ==
    << S_LIST("L", << Num(1), Num(2) >>), S_FOREACH("V", "L"), S_BLANK,
       S_REPEAT(2, << S_INCR("R"), S_END >>), S_NEXT("V"), S_PRINT("never") >>

BodyLoopPrograms == {GotoCycleInSub, GotoCycleInRepeat, Returning, EndInRepeat}

\* a statement that divides by zero, or jumps to a target that is neither a
\* label nor a line number, with no TRY block around it and in a TRY body:
\*   PRINT "before" / fault / INCR AFTER
\*   TRY / fault / INCR AFTER / CATCH E / INCR C1 / END TRY
RuntimeFaultPrograms ==
    LET faults == {S_LET("X", Div(Num(1), Num(0))),
                   S_LET("X", Div(Num(6), Var("Z"))),
                   S_GOTO("nowhere"),
                   [op |-> "GOSUB", target |-> "nowhere"]}
    IN {FaultProgram(f) : f \in faults}
       \cup {<< S_TRY, f, S_INCR("AFTER"), S_CATCH("E"), S_INCR("C1"),
                S_END_TRY >> : f \in faults}

\* a statement that only prints a diagnostic (a command no dispatcher knows,
\* a loop closer or a RETURN with nothing to close), alone and inside a TRY
\* block and a FOR loop:
\*   PRINT "before" / stmt / INCR AFTER
\*   TRY / FOR I = 1 TO 2 / stmt / INCR AFTER / NEXT I / CATCH E / END TRY
StrayPrograms ==
    LET strays == {[op |-> "UNKNOWN"], S_NEXT("I"), S_NEXT("J"), S_NEXT(""),
                   S_WEND, S_LOOP("", True), S_LOOP("WHILE", False), S_RETURN}
    IN {FaultProgram(c) : c \in strays}
       \cup {<< S_TRY, S_FOR("I", Num(1), Num(2), Num(1)), c, S_INCR("AFTER"),
                S_NEXT("I"), S_CATCH("E"), S_END_TRY >> : c \in strays}

\* an opener whose closer is missing and whose condition is false:
\*   WHILE 1 = 2 / INCR B        IF 1 = 2 THEN / INCR B
\*   DO WHILE 1 = 2 / INCR B     SELECT CASE 1 / CASE 2 / INCR B
UnclosedPrograms ==
    {<< opener, S_INCR("B") >> :
         opener \in {S_WHILE(False), S_DO("WHILE", False),
                     [op |-> "IF THEN", cond |-> False]}}
    \cup {<< [op |-> "SELECT", expr |-> Num(1)], [op |-> "CASE", expr |-> Num(2)],
             S_INCR("B") >>}

\* TestElseifEndif with a body in front of each branch's INCR:
\*   LET X = x / IF X = 1 THEN / body / INCR B1 / ELSEIF X = 2 THEN / body /
\*   INCR B2 / ELSE / body / INCR B3 / END IF / INCR AFTER
\* where body is PRINT "body", the single-line IF 1 = 1 THEN INCR S, or a
\* nested block IF with or without ELSE
BlockIfPrograms ==
    LET IfThen(c) == [op |-> "IF THEN", cond |-> c]
        Else == [op |-> "ELSE"]
        EndIf == [op |-> "END IF"]
        bodies == {<< S_PRINT("body") >>,
                   << S_IFTHEN(True, S_INCR("S")) >>,
                   << IfThen(True), S_INCR("S"), EndIf >>,
                   << IfThen(False), S_INCR("S"), Else, S_INCR("T"), EndIf >>}
    IN {<< S_LET("X", Num(x)), IfThen(Cond(Var("X"), "=", Num(1))) >> \o b
           \o << S_INCR("B1"),
                 [op |-> "ELSEIF", cond |-> Cond(Var("X"), "=", Num(2))] >> \o b
           \o << S_INCR("B2"), Else >> \o b
           \o << S_INCR("B3"), EndIf, S_INCR("AFTER") >> :
               x \in 1 .. 3, b \in bodies}

\* LET I = 0 / WHILE I < n / INCR I / LET J = 0 / WHILE J < k / INCR J /
\* INCR N / WEND / INCR M / WEND / INCR AFTER
NestedWhile(n, k) ==
    << S_LET("I", Num(0)), S_WHILE(Cond(Var("I"), "<", Num(n))), S_INCR("I"),
       S_LET("J", Num(0)), S_WHILE(Cond(Var("J"), "<", Num(k))), S_INCR("J"),
       S_INCR("N"), S_WEND, S_INCR("M"), S_WEND, S_INCR("AFTER") >>

\* an outer DO/LOOP that runs twice, its clause on the opener or the closer,
\* around an inner DO ... LOOP WHILE J < k:
\*   DO [clause] / INCR I / LET J = 0 / DO / INCR J / INCR N /
\*   LOOP WHILE J < k / INCR M / LOOP [clause] / INCR AFTER
\* with the clauses WHILE M < 2 and UNTIL M = 2
DoPrograms ==
    LET while == Cond(Var("M"), "<", Num(2))
        until == Cond(Var("M"), "=", Num(2))
        nest(opener, closer, k) ==
            << opener, S_INCR("I"), S_LET("J", Num(0)), S_DO("", True),
               S_INCR("J"), S_INCR("N"),
               S_LOOP("WHILE", Cond(Var("J"), "<", Num(k))), S_INCR("M"), closer,
               S_INCR("AFTER") >>
    IN {nest(S_DO("WHILE", while), S_LOOP("", True), 1),
        nest(S_DO("UNTIL", until), S_LOOP("", True), 1)}
       \cup {nest(S_DO("", True), closer, k) :
                 closer \in {S_LOOP("WHILE", while), S_LOOP("UNTIL", until)},
                 k \in 1 .. MaxLoop}

\* TestSelectCase with a repeated CASE, inside a FOR loop over the scrutinee:
\*   FOR X = a TO b / SELECT CASE X / CASE 1 / INCR B1 / CASE 2 / INCR B2 /
\*   CASE 2 / INCR B3 / [CASE ELSE / INCR B4 /] END SELECT / INCR AFTER / NEXT X
SelectProgram(a, b, with_else) ==
    << S_FOR("X", Num(a), Num(b), Num(1)), [op |-> "SELECT", expr |-> Var("X")],
       [op |-> "CASE", expr |-> Num(1)], S_INCR("B1"),
       [op |-> "CASE", expr |-> Num(2)], S_INCR("B2"),
       [op |-> "CASE", expr |-> Num(2)], S_INCR("B3") >>
    \o (IF with_else THEN << [op |-> "CASE ELSE"], S_INCR("B4") >> ELSE << >>)
    \o << [op |-> "END SELECT"], S_INCR("AFTER"), S_NEXT("X") >>

\* test_nested_gosub with labels, and a GOSUB in a REPEAT block:
\*   GOSUB outer / INCR AFTER / END / outer: / INCR A / GOSUB inner / INCR B /
\*   RETURN / inner: / INCR C / RETURN
\*   REPEAT 2 [GOSUB sub] / INCR AFTER / END / sub: / INCR S / RETURN
GosubPrograms ==
    LET Gosub(n) == [op |-> "GOSUB", target |-> n]
    IN {<< Gosub("outer"), S_INCR("AFTER"), S_END, S_LABEL("outer"), S_INCR("A"),
           Gosub("inner"), S_INCR("B"), S_RETURN, S_LABEL("inner"), S_INCR("C"),
           S_RETURN >>,
        << S_REPEAT(2, << Gosub("sub") >>), S_INCR("AFTER"), S_END,
           S_LABEL("sub"), S_INCR("S"), S_RETURN >>}

\* test_step_zero_error inside a FOR loop, closed by NEXT I or by NEXT:
\*   FOR J = 1 TO 2 / FOR I = 1 TO 3 STEP 0 / INCR B / nxt / INCR M / NEXT J /
\*   INCR AFTER
StepZero(nxt) ==
    << S_FOR("J", Num(1), Num(2), Num(1)), S_FOR("I", Num(1), Num(3), Num(0)),
       S_INCR("B"), nxt, S_INCR("M"), S_NEXT("J"), S_INCR("AFTER") >>

-----------------------------------------------------------------------------
\* a SUB whose parameters shadow variables of the caller, which are set
\* beforehand or not; the body changes them and ends by RETURN or at END SUB:
\*   LET P = 4 / SUB S(params) / LET P = 9 / INCR Q / RETURN / END SUB /
\*   CALL S(7, 8) / INCR AFTER
CallPrograms ==
    { << first, S_SUB("S", ps), S_LET("P", Num(9)), S_INCR("Q"), last,
         S_END_SUB, S_CALL("S", << Num(7), Num(8) >>), S_INCR("AFTER") >> :
        first \in {S_BLANK, S_LET("P", Num(4))},
        ps \in {<< "P" >>, << "P", "Q" >>, << "P", "P" >>},
        last \in {S_BLANK, S_RETURN} }

\* a recursive FUNCTION called in an expression (test_function_recursive_
\* factorial), the recursive call standing right or left of the operator,
\* and one with two recursive calls:
\*   FUNCTION F(N) / IF N <= 1 THEN RETURN 1 / RETURN N * F(N - 1) /
\*   END FUNCTION / LET X = F(n) / INCR AFTER
\*   ... RETURN F(N - 1) * N ...
\*   ... IF N < 2 THEN RETURN N / RETURN F(N - 1) + F(N - 2) ...
RecursiveFunction(shape, n) ==
    LET N == Var("N")
        F(d) == [k |-> "call", name |-> "F",
                 arg |-> [k |-> "bin", op |-> "-", l |-> N, r |-> Num(d)]]
        RETURN(e) == [op |-> "RETURN", expr |-> e]
        base == IF shape = "F+F"
                THEN S_IFTHEN(Cond(N, "<", Num(2)), RETURN(N))
                ELSE S_IFTHEN(Cond(N, "<=", Num(1)), RETURN(Num(1)))
        body == CASE shape = "N*F" -> [k |-> "bin", op |-> "*", l |-> N, r |-> F(1)]
                  [] shape = "F*N" -> [k |-> "bin", op |-> "*", l |-> F(1), r |-> N]
                  [] shape = "F+F" -> [k |-> "bin", op |-> "+", l |-> F(1), r |-> F(2)]
    IN << [op |-> "FUNCTION", name |-> "F", params |-> << "N" >>], base,
          RETURN(body), [op |-> "END FUNCTION"],
          S_LET("X", [k |-> "call", name |-> "F", arg |-> Num(n)]),
          S_INCR("AFTER") >>

\* READ and RESTORE with the DATA lines before, after and around them
\* (test_read_before_data, test_restore_resets):
\*   DATA a, b / READ X / READ Y / RESTORE / READ Z
\*   READ X / READ Y / RESTORE / READ Z / DATA a, b
\*   DATA a / READ X / READ Y / RESTORE / READ Z / DATA b
DataProgram(a, b, where) ==
    LET DATA(vs) == [op |-> "DATA", values |-> vs]
        READ(x) == [op |-> "READ", vars |-> << x >>]
        reads == << READ("X"), READ("Y"), [op |-> "RESTORE"], READ("Z") >>
    IN CASE where = "before" -> << DATA(<< Num(a), Num(b) >>) >> \o reads
         [] where = "after" -> reads \o << DATA(<< Num(a), Num(b) >>) >>
         [] where = "around" ->
                << DATA(<< Num(a) >>) >> \o reads \o << DATA(<< Num(b) >>) >>

DataPrograms ==
    {DataProgram(a, b, where) :
        a \in 1 .. 2, b \in 1 .. 2, where \in {"before", "after", "around"}}

\* a constant declared by CONST or created by ENUM, then a statement that
\* writes to a variable of that name (test_enum_constants_are_immutable):
\*   CONST K = 7 / writer / NEXT K / DATA 3
\*   ENUM E = J, K / writer (of E_K) / NEXT E_K / DATA 3
\* with the writers LET, CONST, INCR, FOR, READ and a call S(c) of SUB S(c)
ConstPrograms ==
    LET prog(decl, c) ==
          { << decl, w, S_NEXT(c), [op |-> "DATA", values |-> << Num(3) >>] >> :
              w \in { S_LET(c, Num(8)),
                      [op |-> "CONST", name |-> c, expr |-> Num(9)],
                      S_INCR(c), S_FOR(c, Num(1), Num(2), Num(1)),
                      [op |-> "READ", vars |-> << c >>] } }
    IN prog([op |-> "CONST", name |-> "K", expr |-> Num(7)], "K")
       \cup prog([op |-> "ENUM", name |-> "E", values |-> << "J", "K" >>], "E_K")

\* an answer taken by A: and matched by M: against one or two patterns
\* (TestPilotMatch):   A: / M: p1, p2 / INCR AFTER
MatchPrograms ==
    { << [op |-> "A:", var |-> ""], [op |-> "M:", patterns |-> ps],
         S_INCR("AFTER") >> :
        ps \in { << "hi" >>, << "HI" >>, << "h" >>, << "x" >>, << "5" >>,
                 << "x", "h" >>, << "", "x" >> } }

\* REPEAT n [INCR B REPEAT 2 [INCR C] INCR D] (test_repeat_nested,
\* test_repcount_variable): _split_top_level_line breaks the block before the
\* word REPEAT and after the closing bracket
NestedRepeat(n) ==
    << S_REPEAT(n, << S_INCR("B"), S_REPEAT(2, << S_INCR("C") >>), S_INCR("D") >>) >>

RepeatPrograms == { NestedRepeat(n) : n \in (0 - 1) .. MaxLoop + 1 }

\* SQUARE (test_square): with the pen down or up, with and without a side,
\* from the origin and after the turtle has moved or turned
TurtlePrograms ==
    LET Arg(op, n) == [op |-> op, arg |-> Num(n)]
        Before == { << >>, << Arg("FORWARD", 1) >>, << Arg("RIGHT", 90) >>,
                    << Arg("SQUARE", 1) >>,
                    << Arg("RIGHT", 90), Arg("RIGHT", 270) >> }
        Pen == { << >>, << [op |-> "PENUP"] >>,
                 << [op |-> "PENUP"], [op |-> "PENDOWN"] >> }
        Square == { [op |-> "SQUARE"], Arg("SQUARE", 1), Arg("SQUARE", 2) }
    IN { before \o pen \o << square >> :
            before \in Before, pen \in Pen, square \in Square }

\* [LIST A = init /] PUSH A, v / POP A, V (test_push_multiple,
\* test_pop_removes_last); with no init the list is undefined before the PUSH
PushPop(init, v) ==
    (IF init = << >> THEN << >> ELSE << S_LIST("A", init) >>)
    \o << [op |-> "PUSH", name |-> "A", values |-> << v >>],
          [op |-> "POP", name |-> "A", var |-> "V"] >>

PushPopLists ==
    { << >>, << Num(1) >>, << Num(4), Num(1) >>, << Num(1), Num(2), Num(3) >> }

PushPopValues == { Num(4), Num(1), Str("hi"), Str("") }

\* PUSH of several values, POP without a variable and POP of an empty list
PushPopPrograms ==
    { PushPop(init, v) : init \in PushPopLists, v \in PushPopValues }
    \cup { << [op |-> "PUSH", name |-> "A", values |-> << Num(2), Num(3) >>],
             [op |-> "POP", name |-> "A"], [op |-> "POP", name |-> "A"],
             [op |-> "POP", name |-> "A", var |-> "V"],
             [op |-> "PUSH", name |-> "A", values |-> << >>] >> }

\* Logo procedures: TO sq / FORWARD 1 closed by END, closed after a further
\* line, and never closed, each between the programs' own first and last line
ToPrograms ==
    LET head == << S_LET("BEFORE", Num(1)),
                   [op |-> "TO", name |-> "sq", params |-> << >>],
                   [op |-> "FORWARD", arg |-> Num(1)] >>
        rest == << S_BLANK, S_LET("AFTER", Num(1)) >>
    IN { head \o rest, head \o << S_END >> \o rest,
         head \o << S_LET("MID", Num(1)), S_END >> \o rest }

\* PILOT subroutines (test_call_subroutine, test_end): a call from a
\* subroutine, a call of an unknown label, and calls from a REPEAT block and
\* from a FOREACH body
\*   C:*a / INCR AFTER / E: / *a / C:*b / C:*nowhere / INCR A / E: /
\*   *b / INCR B / E:
\*   REPEAT 2 [C:*a] / INCR AFTER / E: / *a / INCR A / E:
\*   LIST L = 1, 2 / FOREACH V IN L / C:*a / NEXT V / INCR AFTER / E: /
\*   *a / INCR A / E:
PilotPrograms ==
    LET C(l) == [op |-> "C:", label |-> l]
        E == [op |-> "E:"]
    IN { << C("a"), S_INCR("AFTER"), E, S_LABEL("a"), C("b"), C("nowhere"),
            S_INCR("A"), E, S_LABEL("b"), S_INCR("B"), E >>,
         << S_REPEAT(2, << C("a") >>), S_INCR("AFTER"), E, S_LABEL("a"),
            S_INCR("A"), E >>,
         << S_LIST("L", << Num(1), Num(2) >>), S_FOREACH("V", "L"), C("a"),
            S_NEXT("V"), S_INCR("AFTER"), E, S_LABEL("a"), S_INCR("A"), E >> }

-----------------------------------------------------------------------------
(* Runs *)

Run(progs, guis, debugs, buffers) ==
    [prog : progs, gui : guis, debug : debugs, buffer : buffers]

\* LET X = x / LET Y = y / SELECT CASE X / CASE 2 / INCR A2 / SELECT CASE Y /
\* CASE 1 / INCR B1 / CASE 2 / INCR B2 / END SELECT / CASE 1 / INCR A1 /
\* END SELECT / INCR AFTER
NestedSelect(x, y) ==
    << S_LET("X", Num(x)), S_LET("Y", Num(y)),
       [op |-> "SELECT", expr |-> Var("X")],
       [op |-> "CASE", expr |-> Num(2)], S_INCR("A2"),
       [op |-> "SELECT", expr |-> Var("Y")],
       [op |-> "CASE", expr |-> Num(1)], S_INCR("B1"),
       [op |-> "CASE", expr |-> Num(2)], S_INCR("B2"),
       [op |-> "END SELECT"],
       [op |-> "CASE", expr |-> Num(1)], S_INCR("A1"),
       [op |-> "END SELECT"], S_INCR("AFTER") >>

\* LIST L = 1, 2 / FOREACH V IN L / LET J = 0 / loop / INCR M / NEXT V /
\* INCR AFTER, where loop is FOR I = 1 TO n / INCR N / NEXT I or
\* WHILE J < n / INCR J / INCR N / WEND
LoopInForeach(kind, n) ==
    << S_LIST("L", << Num(1), Num(2) >>), S_FOREACH("V", "L"),
       S_LET("J", Num(0)) >>
    \o (IF kind = "FOR"
        THEN << S_FOR("I", Num(1), Num(n), Num(1)), S_INCR("N"), S_NEXT("I") >>
        ELSE << S_WHILE(Cond(Var("J"), "<", Num(n))), S_INCR("J"), S_INCR("N"),
                S_WEND >>)
    \o << S_INCR("M"), S_NEXT("V"), S_INCR("AFTER") >>

LoopInForeachPrograms ==
    {LoopInForeach("FOR", n) : n \in 1 .. MaxForBound}
    \cup {LoopInForeach("WHILE", n) : n \in 0 .. MaxLoop}

\* runs that end, or cycle through finitely many states
FiniteRuns ==
    Run(ForPrograms \cup LoopPrograms \cup BodyLoopPrograms
            \cup RuntimeFaultPrograms \cup StrayPrograms \cup UnclosedPrograms
            \cup BlockIfPrograms \cup DoPrograms \cup GosubPrograms
            \cup CallPrograms \cup DataPrograms \cup ConstPrograms
            \cup MatchPrograms \cup PilotPrograms \cup RepeatPrograms
            \cup TurtlePrograms \cup PushPopPrograms \cup ToPrograms
            \cup LoopInForeachPrograms
            \cup {NestedSelect(x, y) : x \in 1 .. MaxForBound, y \in 1 .. MaxForBound}
            \cup {RecursiveFunction(shape, n) :
                     shape \in {"N*F", "F*N", "F+F"}, n \in 0 .. MaxDepth}
            \cup {NestedWhile(n, k) : n \in 0 .. MaxLoop, k \in 0 .. MaxLoop}
            \cup {SelectProgram(a, b, e) : a \in 1 .. MaxForBound,
                                           b \in 1 .. MaxForBound, e \in BOOLEAN}
            \cup {StepZero(S_NEXT("I")), StepZero(S_NEXT(""))},
        {FALSE}, {FALSE}, {<< >>})
    \cup Run(TryPrograms \cup FaultPrograms, {FALSE}, BOOLEAN, {<< >>})
    \cup Run(InputPrograms, {FALSE}, {FALSE}, {<< >>, << "5" >>})
    \cup Run(InputPrograms \cup {ForLoop(S_PRINT("body"))} \cup DataPrograms
                 \cup TurtlePrograms \cup {FaultInSubInTry, TryInSub},
             {TRUE}, {FALSE}, {<< >>})

\* runs that only the iteration guard ends
RunawayRuns == Run(RunawayPrograms, {FALSE}, {FALSE}, {<< >>})

\* the state after construction of the interpreter (and, in the IDE, after
\* run_code has started the worker thread)
InitRun(r) ==
    /\ _history = << >>
    /\ _index = 0 - 1
    /\ history_result = [call |-> "__init__", value |-> NoneV, before |-> NoneV,
                         after_undo |-> FALSE]
    /\ program_text = r.prog
    /\ program_lines = << >>
    /\ gui = r.gui
    /\ debug_mode = r.debug
    /\ input_buffer = r.buffer
    /\ current_line = 0
    /\ running = FALSE
    /\ iterations = 0
    /\ error_history = << >>
    /\ variables = << >>
    /\ lists = << >>
    /\ for_stack = << >>
    /\ while_stack = << >>
    /\ do_stack = << >>
    /\ try_stack = << >>
    /\ call_stack = << >>
    /\ stack = << >>
    /\ select_stack = << >>
    /\ sub_definitions = << >>
    /\ function_definitions = << >>
    /\ return_value = NoneV
    /\ _data_values = << >>
    /\ _data_pos = 0
    /\ constants = {}
    /\ system_vars = [answer |-> Str("")]
    /\ match_flag = FALSE
    /\ return_stack = << >>
    /\ turtle_graphics = IF r.gui THEN InitTurtle ELSE << >>
    /\ logo_procedures = << >>
    /\ frames = << >>
    /\ pc = "start"
    /\ executed = {}
    /\ _input_event = "none"
    /\ _input_result = ""
    /\ _waiting_for_input = FALSE
    /\ _is_running = r.gui
    /\ host_pc = "idle"
    /\ runs = 1
    /\ cancelled = "no"

Init ==
    \E r \in FiniteRuns \cup RunawayRuns
                \cup Run({HaltsAtLimit}, {FALSE}, {FALSE}, {<< >>}) : InitRun(r)

Next ==
    \/ run_program
    \/ FetchExecute
    \/ LoopEnd
    \/ InputRequest
    \/ InputBlock
    \/ InputReturn
    \/ TerminalInput
    \/ StopSetRunning
    \/ StopCancelInput
    \/ _submit_input
    \/ _on_run_finished
    \/ run_code

Spec == Init /\ [][Next]_vars

\* The same steps from the runs that need no guard, with the scheduling the
\* threads get: the worker thread keeps running while it can take a step, and
\* the IDE thread finishes a stop_code it has begun.  Nothing obliges the user
\* to type, to press Stop or to submit.
FiniteInit == \E r \in FiniteRuns : InitRun(r)

\* the worker thread can take a step: run_program has been called and has
\* not returned, and the thread is not inside get_user_input
WorkerCanStep == pc \in {"start", "run"}

\* weak fairness of the worker, WF_vars(Worker), written with the condition
\* under which Worker is enabled
WorkerFair == []<>(~WorkerCanStep) \/ []<><<Worker>>_vars

FairSpec ==
    /\ FiniteInit
    /\ [][Next]_vars
    /\ WorkerFair
    /\ WF_vars(StopCancelInput)
    /\ WF_vars(_on_run_finished)

-----------------------------------------------------------------------------
(* The undo history of the editor (UndoHistoryManager) *)

\* the interpreter's side of the state, which the undo history never touches
interpreter_vars ==
    << program_text, program_lines, gui, debug_mode, current_line, running,
       iterations, error_history, variables, lists, for_stack, while_stack,
       do_stack, try_stack, call_stack, stack, select_stack, sub_definitions,
       function_definitions, return_value, _data_values, _data_pos, constants,
       system_vars, match_flag, return_stack, turtle_graphics,
       logo_procedures, input_buffer, frames, pc, executed, _input_event,
       _input_result, _waiting_for_input, _is_running, host_pc, runs,
       cancelled >>

\* the editor contents that are snapshotted
Contents == {"v1", "v2"}

\* the indexes handed to jump_to
JumpTargets == (0 - 2) .. MAX_HISTORY + 1

\* history[:n] and history[-n:]
Prefix(history, n) == SubSeq(history, 1, n)
Last(history, n) == SubSeq(history, Len(history) - n + 1, Len(history))

can_undo == _index > 0

can_redo == _index < Len(_history) - 1

\* the content of the entry under the cursor
Current == IF _index = 0 - 1 THEN NoneV ELSE Str(_history[_index + 1].content)

\* the record of a call that returns value: its name, what it returned, the
\* content that was current when it was made, and whether the call before it
\* was an undo() that returned a content
Returned(call, value) ==
    [call |-> call, value |-> value, before |-> Current,
     after_undo |-> history_result.call = "undo" /\ history_result.value # NoneV]

\* snapshot that keeps the entries after the cursor
snapshot_keep_forward(content) ==
    /\ IF _history # << >> /\ Top(_history).content = content
       THEN UNCHANGED << _history, _index >>
       ELSE LET appended == Append(_history, [content |-> content])
                trimmed == IF Len(appended) > MAX_HISTORY
                           THEN Last(appended, MAX_HISTORY) ELSE appended
            IN /\ _history' = trimmed
               /\ _index' = Len(trimmed) - 1
    /\ history_result' = Returned("snapshot", NoneV)
    /\ UNCHANGED interpreter_vars

\* snapshot that never drops the oldest entries
snapshot_untrimmed(content) ==
    LET kept == IF _index # 0 - 1 /\ _index < Len(_history) - 1
                THEN Prefix(_history, _index + 1) ELSE _history
    IN /\ IF kept # << >> /\ Top(kept).content = content
          THEN /\ _history' = kept
               /\ UNCHANGED _index
          ELSE /\ _history' = Append(kept, [content |-> content])
               /\ _index' = Len(kept)
       /\ history_result' = Returned("snapshot", NoneV)
       /\ UNCHANGED interpreter_vars

\* snapshot(content): the entries after the cursor are dropped; content equal
\* to that of the last entry left is not recorded again; otherwise the entry
\* is appended, the oldest entries beyond MAX_HISTORY are dropped and the
\* cursor is set on the new entry
snapshot(content) ==
    LET kept == IF _index # 0 - 1 /\ _index < Len(_history) - 1
                THEN Prefix(_history, _index + 1) ELSE _history
    IN /\ IF kept # << >> /\ Top(kept).content = content
          THEN /\ _history' = kept
               /\ UNCHANGED _index
          ELSE LET appended == Append(kept, [content |-> content])
                   trimmed == IF Len(appended) > MAX_HISTORY
                              THEN Last(appended, MAX_HISTORY) ELSE appended
               IN /\ _history' = trimmed
                  /\ _index' = Len(trimmed) - 1
       /\ history_result' = Returned("snapshot", NoneV)
       /\ UNCHANGED interpreter_vars

\* undo that also steps back from the oldest entry
undo_past_oldest ==
    /\ IF _index >= 0
       THEN /\ _index' = _index - 1
            /\ history_result' =
                   Returned("undo", IF _index > 0 THEN Str(_history[_index].content)
                                    ELSE NoneV)
       ELSE /\ history_result' = Returned("undo", NoneV)
            /\ UNCHANGED _index
    /\ UNCHANGED << _history, interpreter_vars >>

\* undo(): one entry back and its content, or None
undo ==
    /\ IF _index > 0
       THEN /\ _index' = _index - 1
            /\ history_result' = Returned("undo", Str(_history[_index' + 1].content))
       ELSE /\ history_result' = Returned("undo", NoneV)
            /\ UNCHANGED _index
    /\ UNCHANGED << _history, interpreter_vars >>

\* redo(): one entry forward and its content, or None
redo ==
    /\ IF _index < Len(_history) - 1
       THEN /\ _index' = _index + 1
            /\ history_result' = Returned("redo", Str(_history[_index' + 1].content))
       ELSE /\ history_result' = Returned("redo", NoneV)
            /\ UNCHANGED _index
    /\ UNCHANGED << _history, interpreter_vars >>

\* jump_to(index): the cursor is set on entry index, when there is one
jump_to(index) ==
    /\ IF 0 <= index /\ index < Len(_history)
       THEN /\ _index' = index
            /\ history_result' = Returned("jump_to", Str(_history[index + 1].content))
       ELSE /\ history_result' = Returned("jump_to", NoneV)
            /\ UNCHANGED _index
    /\ UNCHANGED << _history, interpreter_vars >>

\* clear()
clear ==
    /\ _history' = << >>
    /\ _index' = 0 - 1
    /\ history_result' = Returned("clear", NoneV)
    /\ UNCHANGED interpreter_vars

\* the IDE with an empty editor and a new UndoHistoryManager
UndoInit ==
    InitRun([prog |-> << >>, gui |-> TRUE, debug |-> FALSE, buffer |-> << >>])

UndoNext ==
    \/ \E content \in Contents : snapshot(content)
    \/ undo
    \/ redo
    \/ \E index \in JumpTargets : jump_to(index)
    \/ clear

UndoSpec == UndoInit /\ [][UndoNext]_vars

-----------------------------------------------------------------------------
(* Properties *)

GuardTripped == "Maximum iterations reached (possible infinite loop)"

Reported(msg) == \E k \in 1 .. Len(error_history) : error_history[k] = msg

Done == pc = "done"

NumVar(x) == Get(variables, x, Num(0)).v

\* C1: runaway execution is always cut off.  The main loop never dispatches
\* more than max_iterations statements, and when run_program has returned
\* from a program that does not halt on its own, it has dispatched exactly
\* that many and the error history holds the guard's report.
IterationGuardCutsOff ==
    /\ iterations <= max_iterations
    /\ (program_lines \in RunawayPrograms /\ Done) =>
           /\ iterations = max_iterations
           /\ Reported(GuardTripped)
           /\ ~running

\* C1, reached: run_program has returned from label: / GOTO label
GotoCycleCutOff ==
    /\ program_lines = GotoCycle
    /\ Done
    /\ iterations = max_iterations
    /\ Reported(GuardTripped)

\* C2: the body of FOR I = a TO b STEP st runs max(0, floor((b-a)/st) + 1)
\* times (none when a is already past b), and control then resumes after the
\* matching NEXT, matched by depth when another FOR is nested in the body.
ForBodyRunsCountTimes ==
    LET ForCount(a, b, st) ==
            IF st > 0
            THEN IF a > b THEN 0 ELSE (b - a) \div st + 1
            ELSE IF a < b THEN 0 ELSE (a - b) \div (0 - st) + 1
    IN Done =>
        /\ \A a, b \in 0 .. MaxForBound : \A st \in Steps :
               program_lines = ForProgram(a, b, st) =>
                   /\ NumVar("N") = ForCount(a, b, st)
                   /\ 3 \in executed
        /\ \A a, b \in 0 .. MaxForBound :
               program_lines = NestedForProgram(a, b) =>
                   /\ NumVar("M") = ForCount(a, b, 1)
                   /\ NumVar("N") = 2 * ForCount(a, b, 1)
                   /\ 6 \in executed

\* the innermost loop is about to dispatch a statement with operation op
Dispatching(op) == pc = "run" /\ LoopCond(St) /\ CurCmd(St).op = op

\* the innermost TRY frame has a CATCH
CatchActive == try_stack # << >> /\ Top(try_stack).catch_line # None

\* the line of the statement about to be dispatched lies in the body of the
\* innermost TRY block, between its TRY and its CATCH
InTryBody(line) ==
    /\ CatchActive
    /\ Top(try_stack).try_line < line
    /\ line < Top(try_stack).catch_line

\* the statement fetched next is the one on the line after the CATCH at
\* catch_line, with msg bound to the CATCH's variable and to ERROR$
ResumedAfterCatch(catch_line, msg) ==
    /\ pc = "run"
    /\ NextLine(St) = catch_line + 1
    /\ Get(variables, Line(catch_line).var, NoneV) = Str(msg)
    /\ Get(variables, "ERROR$", NoneV) = Str(msg)

\* the CATCH line of the innermost TRY frame and the message of the THROW
\* about to be dispatched
Thrown ==
    {<< Top(try_stack).catch_line, evaluate_expression(St, CurCmd(St).expr).v >>}

\* C3: a THROW dispatched in a TRY body binds its message to the CATCH's
\* variable and to ERROR$, and the next statement fetched is the one on the
\* line after CATCH, so that nothing between THROW and CATCH runs.
ThrowResumesAfterCatch ==
    [][\A th \in IF Dispatching("THROW") /\ InTryBody(NextLine(St))
                  THEN Thrown ELSE {} :
          FetchExecute => ResumedAfterCatch(th[1], th[2])']_vars

\* the line of the statement (FOREACH or CALL) that entered the innermost
\* body loop
EntryLine ==
    CASE frames = << >> -> None
      [] Top(frames).kind = "foreach" -> Top(frames).body_start - 1
      [] Top(frames).kind = "sub" -> Top(call_stack).return_line
      [] OTHER -> None

\* C4: a THROW dispatched in a SUB body or a FOREACH body that was entered
\* from the TRY body is routed to the CATCH of that TRY: the body loop is left
\* and the next statement fetched is the one on the line after CATCH.
ThrowInNestedBodyRouted ==
    [][\A th \in IF Dispatching("THROW") /\ InTryBody(EntryLine)
                  THEN Thrown ELSE {} :
          FetchExecute => (ResumedAfterCatch(th[1], th[2])' /\ frames' = << >>)]_vars

\* C5: outside debug mode, a fault with no TRY frame active (THROW, a failed
\* ASSERT or a runtime fault, at top level or in a SUB body) ends the run:
\* no later statement has run, and when run_program has returned the error
\* history holds an entry for the fault.
UncaughtFaultEndsRunAndIsRecorded ==
    (Done /\ ~debug_mode /\ program_lines \in FaultPrograms) =>
        /\ "AFTER" \notin DOMAIN variables
        /\ error_history # << >>

\* C6: BREAK in the body of a WHILE, FOR, DO or FOREACH loop leaves the loop:
\* the rest of the body (INCR M) never runs, the body was entered once, and
\* the statement after the loop's closer runs.
BreakExitsLoop ==
    (Done /\ program_lines \in {WhileLoop(S_BREAK), ForLoop(S_BREAK),
                                DoLoop(S_BREAK), ForeachLoop(S_BREAK)}) =>
        /\ "M" \notin DOMAIN variables
        /\ NumVar("I") <= 1
        /\ NumVar("N") <= 1
        /\ NumLines - 1 \in executed

\* C7: TRY frames are popped once per block, in nesting order.  When the
\* inner block of NestedTry has completed, with or without a fault, and the
\* THROW of the outer body (line 6) is about to run, the outer frame (TRY at
\* line 0) is the one active frame; and the fault is then routed to the outer
\* CATCH.
OuterTryFrameSurvivesInner ==
    \A inner \in {S_THROW("inner"), S_PRINT("fine")} :
        program_lines = NestedTry(inner) =>
            /\ (pc = "run" /\ current_line = 6) =>
                   (Len(try_stack) = 1 /\ Top(try_stack).try_line = 0)
            /\ Done => (NumVar("C2") = 1 /\ 7 \notin executed)

\* the worker dispatches a statement
Dispatch ==
    \/ FetchExecute /\ CurCmd(St).op # "BLANK"
    \/ InputRequest

\* C8: once stop_code, called while the worker was blocked in the input wait,
\* has ended the wait, the request returns the empty string and the worker
\* dispatches no further statement, wherever the INPUT statement sits.
CancelledInputEndsRun ==
    [][cancelled = "yes" =>
           /\ InputReturn => _input_result = ""
           /\ ~Dispatch]_vars

\* C9: a stop issued from the IDE thread at any moment of a run takes
\* effect: once stop_code has begun, the worker eventually returns from
\* run_program, whatever the interleaving and with no input submitted.
StopEndsRun == (host_pc # "idle") ~> Done

\* no statement of the program asks for input
NeedsNoInput ==
    \A k \in 1 .. Len(program_text) :
        /\ program_text[k].op \notin {"INPUT", "A:"}
        /\ program_text[k].op = "REPEAT" =>
               \A j \in 1 .. Len(program_text[k].cmds) :
                   program_text[k].cmds[j].op \notin {"INPUT", "A:"}

\* C10: no statement but the input request blocks for ever, a loop that never
\* exits inside a SUB body or a REPEAT block included: every run of a program
\* that asks for no input returns from run_program.
RunsWithoutInputEnd == NeedsNoInput => <>Done

\* the statement about to be dispatched divides by zero, or is a GOTO or
\* GOSUB whose target does not resolve
FaultDispatched ==
    /\ pc = "run"
    /\ LoopCond(St)
    /\ LET c == CurCmd(St)
       IN \/ /\ c.op = "LET"
             /\ c.expr.k = "div"
             /\ evaluate_expression(St, c.expr.r).v = 0
          \/ c.op \in {"GOTO", "GOSUB"} /\ c.target \notin DOMAIN labels

\* C11: a runtime fault (a division by zero in an expression, a GOTO or GOSUB
\* whose target resolves neither as a label nor as a line number) is routed
\* to the CATCH of the nearest TRY frame, or ends the run when there is none:
\* the statement never completes with a substitute value and execution
\* never simply continues with the next line.
RuntimeFaultCaughtOrEndsRun ==
    [][\A c \in IF FaultDispatched THEN {CurCmd(St)} ELSE {} :
       \A catch \in {IF CatchActive THEN Top(try_stack).catch_line ELSE None} :
          FetchExecute =>
              /\ IF catch # None
                 THEN pc' = "run" /\ current_line' = catch + 1
                 ELSE pc' = "done"
              /\ c.op = "LET" =>
                     Get(variables', c.var, NoneV) # Str("ERROR: Division by zero")
      ]_vars

\* C12: a command that no dispatcher recognizes is a non-fatal fault: the run
\* continues with the next line (INCR AFTER), and when run_program has
\* returned the error history holds exactly one entry, the one for it.
UnknownCommandIsRecorded ==
    (Done /\ program_lines = FaultProgram([op |-> "UNKNOWN"])) =>
        /\ NumVar("AFTER") = 1
        /\ Len(error_history) = 1

\* the statement about to be dispatched is a closer with no matching opener:
\* NEXT with no FOR frame or naming another variable than the innermost
\* frame's, WEND with no WHILE frame, LOOP with no DO frame, RETURN with
\* neither a GOSUB return line nor a call frame
StrayCloser ==
    /\ pc = "run"
    /\ LoopCond(St)
    /\ LET c == CurCmd(St)
       IN \/ /\ c.op = "NEXT"
             /\ \/ for_stack = << >>
                \/ c.var # "" /\ c.var # Top(for_stack).var
          \/ c.op = "WEND" /\ while_stack = << >>
          \/ c.op = "LOOP" /\ do_stack = << >>
          \/ c.op = "RETURN" /\ stack = << >> /\ call_stack = << >>

PcInRange == 0 <= current_line /\ current_line <= NumLines

\* C15: of a block IF / ELSEIF / ELSE / END IF exactly one branch body runs,
\* that of the first true condition or else the ELSE body, whatever
\* statements (a single-line IF ... THEN statement, a nested block IF) lie in
\* the bodies, and the statement after END IF runs.
BlockIfRunsOneBranch ==
    (Done /\ program_lines \in BlockIfPrograms) =>
        /\ NumVar("B1") = (IF NumVar("X") = 1 THEN 1 ELSE 0)
        /\ NumVar("B2") = (IF NumVar("X") = 2 THEN 1 ELSE 0)
        /\ NumVar("B3") = (IF NumVar("X") \in {1, 2} THEN 0 ELSE 1)
        /\ NumVar("AFTER") = 1

\* C16: WHILE/WEND is a pre-test loop, also when one WHILE loop is nested in
\* another: in NestedWhile(n, k) the outer body runs n times, the inner body
\* k times on each of them (none when the condition is false on entry), and
\* the statement after the outer WEND runs.
WhileIsPreTest ==
    \A n, k \in 0 .. MaxLoop :
        (Done /\ program_lines = NestedWhile(n, k)) =>
            /\ NumVar("M") = n
            /\ NumVar("N") = n * k
            /\ NumVar("AFTER") = 1

\* C17: a DO/LOOP repeats as long as the clause on its opener or its closer
\* permits, a bare LOOP under the clause of its DO, and the LOOP of an outer
\* DO loops back to the outer DO after an inner DO/LOOP has run: in each of
\* DoPrograms the outer body runs twice (I, M) and the inner body as often
\* as its clause permits on each of them (J times, so N = 2 * J).
DoLoopRepeatsAsClausePermits ==
    (Done /\ program_lines \in DoPrograms) =>
        /\ NumVar("I") = 2
        /\ NumVar("M") = 2
        /\ NumVar("N") = 2 * NumVar("J")
        /\ NumVar("AFTER") = 1

ReturnResumesAfterGosub ==
    [][(Dispatching("RETURN") /\ call_stack = << >> /\ stack # << >>
          /\ FetchExecute) =>
          /\ stack' = Pop(stack)
          /\ current_line' = Top(stack) + 1
          /\ \E l \in 0 .. NumLines - 1 :
                /\ l = current_line' - 1
                /\ \/ Line(l).op = "GOSUB"
                   \/ /\ Line(l).op = "REPEAT"
                      /\ \E j \in 1 .. Len(Line(l).cmds) :
                            Line(l).cmds[j].op = "GOSUB"
      ]_vars

\* C20: FOR with STEP 0 is rejected: no frame is pushed for it, its body is
\* not repeated, and the enclosing FOR loop is not affected by the rejected
\* FOR and its NEXT, written NEXT I or NEXT: the outer body runs twice in
\* full.
StepZeroForIsRejected ==
    \A nxt \in {S_NEXT("I"), S_NEXT("")} :
        program_lines = StepZero(nxt) =>
            /\ \A k \in 1 .. Len(for_stack) : for_stack[k].var # "I"
            /\ Done =>
                   /\ NumVar("B") = 2
                   /\ NumVar("M") = 2
                   /\ NumVar("J") = 3
                   /\ NumVar("AFTER") = 1

\* the innermost SUB body loop among the nested loops
InnerSub ==
    CHOOSE k \in DOMAIN frames :
        /\ frames[k].kind = "sub"
        /\ \A j \in DOMAIN frames : j > k => frames[j].kind # "sub"

\* C21: when a call returns, by RETURN or by reaching the end of the body,
\* every variable named like a parameter of the callee has the value it had
\* before the call, or is undefined if it was, and execution resumes at the
\* call site.
ParametersRestoredAfterCall ==
    [][(Len(call_stack') < Len(call_stack) /\ FetchExecute) =>
          /\ current_line' \in {Top(call_stack).return_line,
                                 Top(call_stack).return_line + 1}
          /\ \A i \in DOMAIN Top(call_stack).params :
                LET p == Top(call_stack).params[i]
                    before == frames[InnerSub].before
                IN IF p \in DOMAIN before
                   THEN p \in DOMAIN variables' /\ variables'[p] = before[p]
                   ELSE p \notin DOMAIN variables'
      ]_vars

\* C22: a recursive FUNCTION called in an expression returns the value of
\* each activation's RETURN expression to the expression that called it,
\* and the caller's parameter is bound as before once the inner call has
\* returned: F(n) is n! for RETURN N * F(N - 1) and for RETURN F(N - 1) * N,
\* and the n-th Fibonacci number for RETURN F(N - 1) + F(N - 2); N is
\* undefined again after the outermost call.
RecursiveFunctionReturnsValue ==
    LET RECURSIVE value(_, _)
        value(shape, n) ==
            IF shape = "F+F"
            THEN IF n < 2 THEN n ELSE value(shape, n - 1) + value(shape, n - 2)
            ELSE IF n <= 1 THEN 1 ELSE n * value(shape, n - 1)
    IN \A shape \in {"N*F", "F*N", "F+F"}, n \in 0 .. MaxDepth :
          (program_lines = RecursiveFunction(shape, n) /\ Done) =>
             /\ "X" \in DOMAIN variables
             /\ variables["X"] = Num(value(shape, n))
             /\ "N" \notin DOMAIN variables
             /\ error_history = << >>

\* C23: successive READs deliver the DATA literals in textual order wherever
\* the DATA lines stand, and RESTORE makes the next READ deliver the first
\* literal again: with the literals a, b in the program, READ X / READ Y /
\* RESTORE / READ Z, run to its last line, leaves X = a, Y = b and Z = a.
ReadDeliversDataInOrder ==
    \A a \in 1 .. 2, b \in 1 .. 2, where \in {"before", "after", "around"} :
        (program_lines = DataProgram(a, b, where) /\ Done
            /\ current_line = NumLines) =>
            /\ variables["X"] = Num(a)
            /\ variables["Y"] = Num(b)
            /\ variables["Z"] = Num(a)

\* C24: constants are write-once.  Once a name is declared by CONST or
\* created by ENUM, no statement changes the value of the variable of that
\* name.
ConstantsNeverChange ==
    [][\A c \in constants :
          c \in DOMAIN variables' /\ variables'[c] = variables[c]]_vars

\* C25: M: sets the match flag to whether one of its patterns is a substring
\* of the current answer, letter case ignored, whatever answer A: has stored
\* (an answer that reads as a number included: its text is what was typed),
\* and the run goes on with the next statement.
MatchSetsFlag ==
    [][(Dispatching("M:") /\ FetchExecute) =>
          LET answer == system_vars["answer"]
              typed == IF answer = Num(5) THEN "5" ELSE answer.v
          IN /\ match_flag' =
                   \E k \in DOMAIN CurCmd(St).patterns :
                       /\ CurCmd(St).patterns[k] # ""
                       /\ Contains(lower(Text(typed)),
                                   lower(Text(CurCmd(St).patterns[k])))
             /\ current_line' = current_line + 1
             /\ pc' = "run"
      ]_vars

\* C26: C:*label pushes a return point and jumps to the label: the statement
\* run next is the one at the label.  E: with a return point pushed resumes
\* after the most recent C: call that has not returned: the line before the
\* one fetched next holds that call.  E: with no return point pushed ends
\* the program.
PilotCallAndEndAreLifo ==
    [][FetchExecute =>
          /\ (Dispatching("C:") /\ "label" \in DOMAIN CurCmd(St)
                 /\ CurCmd(St).label \in DOMAIN labels) =>
                /\ return_stack' = Append(return_stack, FetchedLine)
                /\ pc' = "run"
                /\ NextLine(St)' = labels[CurCmd(St).label]
          /\ (Dispatching("E:") /\ return_stack # << >>) =>
                /\ return_stack' = Pop(return_stack)
                /\ current_line' = Top(return_stack) + 1
                /\ \E l \in 0 .. NumLines - 1 :
                      /\ l = current_line' - 1
                      /\ \/ Line(l).op = "C:"
                         \/ /\ Line(l).op = "REPEAT"
                            /\ \E j \in 1 .. Len(Line(l).cmds) :
                                  Line(l).cmds[j].op = "C:"
          /\ (Dispatching("E:") /\ return_stack = << >>) => pc' = "done"
      ]_vars

\* C27: REPEAT n [ body ] runs the body exactly n times, not at all for
\* n <= 0, and whenever a command of the body is about to run REPCOUNT is the
\* 1-based index of the current iteration of the REPEAT block that directly
\* contains the command, nested blocks included.
RepcountIsIterationIndex ==
    /\ (pc = "run" /\ frames # << >> /\ Top(frames).kind = "repeat"
           /\ LoopCond(St)) =>
          Get(variables, "REPCOUNT", NoneV) = Num(Top(frames).it + 1)
    /\ \A n \in (0 - 1) .. MaxLoop + 1 :
          (program_lines = NestedRepeat(n) /\ Done) =>
             LET times == IF n <= 0 THEN 0 ELSE n
             IN /\ Get(variables, "B", Num(0)) = Num(times)
                /\ Get(variables, "C", Num(0)) = Num(2 * times)
                /\ Get(variables, "D", Num(0)) = Num(times)

\* C28: SQUARE s dispatched with the turtle at (0,0), heading 0, leaves the
\* turtle at (0,0) within floating-point tolerance (the exact value is 0 and
\* at most one inexact term per side was added) with heading 0, and issues
\* exactly 4 draw-line requests to the canvas when the pen is down and none
\* when it is up.
SquareReturnsToStart ==
    [][LET tg == IF turtle_graphics = << >> THEN InitTurtle ELSE turtle_graphics
       IN (Dispatching("SQUARE") /\ FetchExecute
             /\ tg.x.v = 0 /\ tg.y.v = 0 /\ tg.heading = 0) =>
            /\ turtle_graphics'.x.v = 0
            /\ turtle_graphics'.y.v = 0
            /\ turtle_graphics'.x.e <= tg.x.e + 4
            /\ turtle_graphics'.y.e <= tg.y.e + 4
            /\ turtle_graphics'.heading = 0
            /\ turtle_graphics'.lines =
                  tg.lines + (IF tg.pen_down THEN 4 ELSE 0)
      ]_vars

\* C29: for any list A and value v, PUSH A, v followed by POP A, V leaves A
\* with its contents from before the PUSH and V = v: after the PUSH the list
\* is the old contents with v at the end, and after the POP the list is the
\* old contents again and V holds v.
PushThenPopRestoresList ==
    \A init \in PushPopLists, v \in PushPopValues :
        LET start == IF init = << >> THEN 0 ELSE 1
        IN program_lines = PushPop(init, v) =>
             /\ (pc = "run" /\ current_line = start + 1) =>
                   lists["A"] = Append(init, v)
             /\ (pc = "run" /\ current_line = start + 2) \/ Done =>
                   /\ lists["A"] = init
                   /\ variables["V"] = v
                   /\ variables["A_LENGTH"] = Num(Len(init))

\* PUSH A, 4 and POP A, V have run on the list 1, 2, 3
PushedAndPopped ==
    /\ program_lines = PushPop(<< Num(1), Num(2), Num(3) >>, Num(4))
    /\ Done
    /\ lists["A"] = << Num(1), Num(2), Num(3) >>
    /\ variables["V"] = Num(4)

\* C30: a TO line with no matching END does not block the loading of the rest
\* of the program: when run_program loads a text whose TO line is followed by
\* no END line, the line stream it builds is not empty and ends with the
\* last line of the text, so that the run reaches it.  (The load-time
\* diagnostic is text on the output, which is not part of the state.)
UnclosedToLoadsRest ==
    [][(run_program
          /\ \E k \in 1 .. Len(program_text) - 1 :
                /\ program_text[k].op = "TO"
                /\ \A j \in k + 1 .. Len(program_text) :
                      program_text[j].op # "END") =>
         /\ program_lines' # << >>
         /\ program_lines'[Len(program_lines')] = program_text[Len(program_text)]
      ]_vars

\* C31: undo() moves the cursor to the entry immediately before the current
\* one and returns its content, or returns None and changes nothing when the
\* cursor is on the oldest entry (or there is none); redo() does the same
\* towards the newest entry; and a redo() made right after an undo() that
\* returned a content returns the content that was current before that undo.
UndoRedoMoveCursor ==
    [][/\ history_result'.call = "undo" =>
              /\ _history' = _history
              /\ IF _index > 0
                 THEN /\ _index' = _index - 1
                      /\ history_result'.value = Str(_history[_index].content)
                 ELSE /\ _index' = _index
                      /\ history_result'.value = NoneV
       /\ history_result'.call = "redo" =>
              /\ _history' = _history
              /\ IF _index < Len(_history) - 1
                 THEN /\ _index' = _index + 1
                      /\ history_result'.value = Str(_history[_index + 2].content)
                 ELSE /\ _index' = _index
                      /\ history_result'.value = NoneV
              /\ history_result'.after_undo =>
                     history_result'.value = history_result.before]_vars

\* a redo() made right after an undo() of the newest of three entries
RedoneAfterUndo ==
    /\ history_result.call = "redo"
    /\ history_result.after_undo
    /\ history_result.value = Str("v1")
    /\ Len(_history) = 3
    /\ _index = 2

\* C32: a snapshot() taken while entries are redo-able (after undo() calls)
\* discards them: right after it can_redo() is false, the entry with the
\* snapshot's content is the newest and the current one, and the entries up to
\* the one that was current are kept as they were; a content other than the
\* current one makes exactly one entry after it.
SnapshotDropsRedoable ==
    [][\A content \in Contents :
           (snapshot(content) /\ _index >= 0 /\ can_redo) =>
               /\ ~can_redo'
               /\ Top(_history').content = content
               /\ _index' = Len(_history') - 1
               /\ Prefix(_history', _index + 1) = Prefix(_history, _index + 1)
               /\ Len(_history') =
                      IF content = _history[_index + 1].content
                      THEN _index + 1 ELSE _index + 2]_vars

\* a snapshot of "v1" taken right after an undo() that went back to "v2",
\* the second of the entries
SnapshotAfterUndo ==
    /\ history_result.call = "snapshot"
    /\ history_result.after_undo
    /\ history_result.before = Str("v2")
    /\ _history = << [content |-> "v1"], [content |-> "v2"], [content |-> "v1"] >>
    /\ _index = 2

\* the cursor is -1 exactly when there is no entry and is otherwise the index
\* of an entry, and there are at most MAX_HISTORY entries
CursorInHistory ==
    /\ Len(_history) <= MAX_HISTORY
    /\ _index = 0 - 1 <=> _history = << >>
    /\ _history # << >> => 0 <= _index /\ _index < Len(_history)

\* C33: after any sequence of snapshot / undo / redo / jump_to / clear calls
\* the history holds at most MAX_HISTORY entries and the cursor is -1 exactly
\* when it is empty and otherwise the index of an entry; the entries a
\* snapshot leaves are the most recent ones: the newest MAX_HISTORY of the
\* entries up to the cursor followed by the new one.
HistoryIsBounded ==
    /\ CursorInHistory
    /\ [][/\ CursorInHistory'
          /\ \A content \in Contents :
                 (snapshot(content) /\ Current # Str(content)) =>
                     LET recent == Append(Prefix(_history, _index + 1),
                                          [content |-> content])
                     IN _history' = IF Len(recent) > MAX_HISTORY
                                    THEN Last(recent, MAX_HISTORY)
                                    ELSE recent]_vars

\* a snapshot with a new content has been taken and the history is full
HistoryFull ==
    /\ history_result.call = "snapshot"
    /\ history_result.before # NoneV
    /\ history_result.before # Current
    /\ Len(_history) = MAX_HISTORY
    /\ _index = MAX_HISTORY - 1

\* the number of WHILE and DO loops of the text that enclose line k
LoopsAround(k) ==
    Cardinality({j \in 0 .. k - 1 : Line(j).op \in {"WHILE", "DO"}})
        - Cardinality({j \in 0 .. k - 1 : Line(j).op \in {"WEND", "LOOP"}})

\* C34: a WHILE/WEND or DO/LOOP loop that exits normally leaves while_stack
\* and do_stack as deep as they were when it was entered, however often it
\* iterated: in the programs NestedWhile(n, k) and DoPrograms, whose loops all
\* exit normally, both stacks are empty whenever the run is outside every
\* loop of the text (and not on the opener of one, where a WEND or LOOP that
\* repeats the loop has jumped).
LoopExitRestoresStackDepth ==
    (/\ pc \in {"run", "done"}
     /\ frames = << >>
     /\ program_lines \in DoPrograms
            \cup {NestedWhile(n, k) : n \in 0 .. MaxLoop, k \in 0 .. MaxLoop}
     /\ current_line <= NumLines
     /\ current_line < NumLines => Line(current_line).op \notin {"WHILE", "DO"}
     /\ LoopsAround(current_line) = 0) =>
        /\ while_stack = << >>
        /\ do_stack = << >>

\* C35: when a fault raised in a SUB body is caught by the TRY around the
\* CALL, the call is unwound: in FaultInCallCaught, when the CATCH body (line
\* 9) is about to run the call stack is empty, as before the CALL, and P has
\* the caller's value 4 again; and the RETURN after END TRY is then a RETURN
\* outside every call, after which the run goes on (AFTER = 1).
CaughtFaultUnwindsCall ==
    \A fault \in Faults :
        program_lines = FaultInCallCaught(fault) =>
            /\ (pc = "run" /\ frames = << >> /\ current_line = 9) =>
                   /\ call_stack = << >>
                   /\ NumVar("P") = 4
            /\ (Done /\ 9 \in executed) =>
                   /\ NumVar("SEEN") = 4
                   /\ NumVar("AFTER") = 1

\* the statement about to be dispatched at top level lies in the CATCH body
\* of the innermost TRY block, between its CATCH and its END TRY
InCatchBody ==
    /\ pc = "run"
    /\ frames = << >>
    /\ LoopCond(St)
    /\ CatchActive
    /\ Top(try_stack).catch_line < current_line
    /\ current_line < Top(try_stack).end_line

\* C36: a fault raised in a CATCH body is not handled by that CATCH.  In
\* ThrowInCatchPrograms the THROW "b" dispatched in the CATCH body (line 5,
\* while C1 < 2) is routed to the CATCH of the enclosing TRY when there is one
\* and ends the run when there is none, and no statement dispatched in the
\* CATCH body leads back to the first line of that body.
FaultInCatchLeavesCatch ==
    [][(program_lines \in ThrowInCatchPrograms /\ InCatchBody) =>
           /\ current_line' # Top(try_stack).catch_line + 1
           /\ (current_line = 5 /\ NumVar("C1") < 2) =>
                  IF Len(try_stack) >= 2
                  THEN /\ pc' = "run"
                       /\ current_line' =
                              try_stack[Len(try_stack) - 1].catch_line + 1
                  ELSE pc' = "done"]_vars

\* C37: a loop nested in a FOREACH body behaves as it does at top level: in
\* LoopInForeach(kind, n) the body of the FOR or WHILE loop runs n times on
\* each of the two FOREACH iterations (N = 2 * n), the statement after the
\* loop runs on each of them, and the run ends with for_stack and while_stack
\* empty.
LoopInForeachRunsFully ==
    \A kind \in {"FOR", "WHILE"}, n \in 0 .. MaxForBound :
        (Done /\ program_lines = LoopInForeach(kind, n)) =>
            /\ NumVar("N") = 2 * n
            /\ NumVar("M") = 2
            /\ NumVar("AFTER") = 1
            /\ for_stack = << >>
            /\ while_stack = << >>

\* C38: SELECT CASE blocks nest.  In NestedSelect(x, y) the branch of the
\* outer block whose CASE equals x is the only one that runs; the nested
\* block, which lies in the outer CASE 2, runs the branch that equals y when
\* x = 2 and nothing at all otherwise; and while a statement of the outer
\* block's own branches is about to run, the outer frame is the top of
\* select_stack and its matched flag says that a CASE of the outer block has
\* matched.
SelectBlocksNest ==
    \A x, y \in 1 .. MaxForBound :
        program_lines = NestedSelect(x, y) =>
            /\ Done =>
                   /\ NumVar("A1") = (IF x = 1 THEN 1 ELSE 0)
                   /\ NumVar("A2") = (IF x = 2 THEN 1 ELSE 0)
                   /\ NumVar("B1") = (IF x = 2 /\ y = 1 THEN 1 ELSE 0)
                   /\ NumVar("B2") = (IF x = 2 /\ y = 2 THEN 1 ELSE 0)
                   /\ NumVar("AFTER") = 1
                   /\ select_stack = << >>
            /\ (pc = "run" /\ current_line \in {4, 12}) =>
                   /\ Len(select_stack) = 1
                   /\ select_stack[1].matched
                   /\ x = (IF current_line = 4 THEN 2 ELSE 1)

\* C39: every run_program starts from fresh control state, however the run
\* before it on the same interpreter ended: when run_program has loaded the
\* program, the data pool holds the DATA literals of that program and nothing
\* else, the READ cursor is on the first of them, and the TRY stack, the call
\* stack and the PILOT return stack are empty.
RunStartsFresh ==
    [][run_program =>
           /\ _data_values' = DataValues(program_lines', 1)
           /\ _data_pos' = 0
           /\ try_stack' = << >>
           /\ call_stack' = << >>
           /\ return_stack' = << >>]_vars

\* C40: the guard's fault is recorded only when the guard cut the run short.
\* Whenever run_program returns with the guard's report in the error history,
\* it has left its loop because the iteration count had reached the limit
\* while the program still had a line to run and running was set; a run that
\* ends by END, STOP, a fault or by running past the last line has no such
\* entry, whatever the number of statements it dispatched.
GuardReportedOnlyWhenCut ==
    [][(pc = "run" /\ pc' = "done" /\ Reported(GuardTripped)') =>
           /\ LoopEnd
           /\ frames = << >>
           /\ LoopCondUnguarded(St)
           /\ iterations >= max_iterations]_vars

=============================================================================
